---- MODULE Spec2Model ----
(***************************************************************************)
(* Signaling server of LargeFileTransfer (src/server.js, lines 1-422):     *)
(* the per-address admission control, the in-memory room registry and the  *)
(* socket.io message handlers that relay signaling between room members.   *)
(***************************************************************************)
EXTENDS Integers, Sequences, FiniteSets, TLC

(***************************************************************************)
(* JavaScript values as they arrive in a socket.io packet.  A string is a  *)
(* sequence of one-character strings, so that its length and characters    *)
(* can be inspected the way the regular expression does.  A number n is    *)
(* kept as hi * 2^30 + lo with 0 <= lo < 2^30, which keeps 10 GiB exact.   *)
(***************************************************************************)
Undef == [t |-> "undefined"]

Null == [t |-> "null"]

Bool(b) == [t |-> "boolean", b |-> b]

Str(s) == [t |-> "string", s |-> s]

Num(h, l) == [t |-> "number", hi |-> h, lo |-> l]

Obj(f) == [t |-> "object", f |-> f]

Fn == [t |-> "function"]

\* typeof v; typeof null is "object"
TypeOf(v) == IF v.t = "null" THEN "object" ELSE v.t

\* o.name: a missing property reads as undefined, a property of a primitive
\* string/number/boolean too (no such own property in the payloads used here)
Field(o, name) ==
    IF o.t = "object" /\ name \in DOMAIN o.f THEN o.f[name] ELSE Undef

\* ToBoolean(v), as used by `if (v)`, `!v`, `a || b`, `a && b`
Truthy(v) ==
    CASE v.t = "undefined" -> FALSE
      [] v.t = "null" -> FALSE
      [] v.t = "boolean" -> v.b
      [] v.t = "string" -> Len(v.s) > 0
      [] v.t = "number" -> ~(v.hi = 0 /\ v.lo = 0)
      [] OTHER -> TRUE

\* a || b
OrElse(a, b) == IF Truthy(a) THEN a ELSE b

\* reading a property of, or destructuring, null or undefined throws TypeError
Throws(v) == v.t \in {"undefined", "null"}

Digits == {"0", "1", "2", "3", "4", "5", "6", "7", "8", "9"}

Lower ==
    {"a", "b", "c", "d", "e", "f", "g", "h", "i", "j", "k", "l", "m",
     "n", "o", "p", "q", "r", "s", "t", "u", "v", "w", "x", "y", "z"}

Upper ==
    {"A", "B", "C", "D", "E", "F", "G", "H", "I", "J", "K", "L", "M",
     "N", "O", "P", "Q", "R", "S", "T", "U", "V", "W", "X", "Y", "Z"}

\* the character class [a-zA-Z0-9]
AlphaNum == Lower \cup Upper \cup Digits

\* variant: the pattern without its upper bound, {8,}
isValidRoomIdUnbounded(roomId) ==
    /\ TypeOf(roomId) = "string"
    /\ Len(roomId.s) >= 8
    /\ \A i \in 1..Len(roomId.s) : roomId.s[i] \in AlphaNum

\* typeof roomId === 'string' && /^[a-zA-Z0-9]{8,15}$/.test(roomId)
isValidRoomId(roomId) ==
    /\ TypeOf(roomId) = "string"
    /\ Len(roomId.s) >= 8
    /\ Len(roomId.s) <= 15
    /\ \A i \in 1..Len(roomId.s) : roomId.s[i] \in AlphaNum

\* data && typeof data === 'object' && isValidRoomId(data.roomId)
isValidSocketData(data) ==
    /\ Truthy(data)
    /\ TypeOf(data) = "object"
    /\ isValidRoomId(Field(data, "roomId"))

(***************************************************************************)
(* A JavaScript Map: its entries in insertion order, keys unique.          *)
(***************************************************************************)
MapHas(m, k) == \E i \in 1..Len(m) : m[i].k = k

MapIndex(m, k) == CHOOSE i \in 1..Len(m) : m[i].k = k

MapGet(m, k) == m[MapIndex(m, k)].v

\* set keeps the position of an existing key and appends a new one
MapSet(m, k, v) ==
    IF MapHas(m, k)
    THEN [m EXCEPT ![MapIndex(m, k)] = [k |-> k, v |-> v]]
    ELSE Append(m, [k |-> k, v |-> v])

MapDelete(m, k) == SelectSeq(m, LAMBDA e : e.k # k)

MapKeys(m) == {m[i].k : i \in 1..Len(m)}

\* a string literal of the source, kept whole
Lit(s) == [t |-> "string", lit |-> s]

(***************************************************************************)
(* Program constants.                                                      *)
(***************************************************************************)
RATE_LIMIT_WINDOW == 60000

MAX_CONNECTIONS_PER_IP == 10

ROOM_TIMEOUT == 10 * 60 * 1000

(***************************************************************************)
(* The environment: socket ids, source addresses, and the instants at      *)
(* which the clock is read.                                                *)
(***************************************************************************)
SocketIds == {"s1", "s2", "s3"}

\* socket.io gives every connection a fresh id: the ids are issued in this
\* order and none is issued twice
SocketOrder == <<"s1", "s2", "s3">>

\* any further connection: one that sends no message, so that nothing but
\* the admission control ever sees it
Other == "other"

Addresses == {"ip1", "ip2"}

\* the start, and an instant past the room timeout (and the admission window)
Instants == {0, ROOM_TIMEOUT + 1}

\* the last instant of a window opened at 0, and the first one after it
RateInstants == {0, RATE_LIMIT_WINDOW, RATE_LIMIT_WINDOW + 1}

\* the attempts per window of the second address
MaxQuietAttempts == 2

\* attempts of one address in one window are counted up to this number
MaxCounted == 12

VARIABLES
    now,                \* the clock: Date.now() / new Date()
    alive,              \* FALSE once a handler has thrown (uncaught: the process exits)
    connectionCounts,   \* Map ip -> {count, firstConnection}
    rooms,              \* Map roomId -> {users, passwordHash, createdAt}
    sockets,            \* connected socket id -> handshake address
    closed,             \* the socket ids whose connection is over (or was refused)
    adapter,            \* socket.io's rooms: the pairs <<roomId, socket>> made by socket.join
    last,               \* the handler that has just run and what it sent; "idle" between handlers
    window,             \* history: per address, the attempt that opened the window, the attempts
                        \* since, and the attempts of the window before
    wire,               \* the connections: per socket, the messages it has sent, those the
                        \* server has not taken up yet, the deliveries on their way to
                        \* it, and those that have arrived
    client              \* one browser page: the room id it generated, its peer connection,
                        \* iceCandidateQueue, the async handlers in flight, and the
                        \* history of the candidates queued and handed to addIceCandidate

vars ==
    <<now, alive, connectionCounts, rooms, sockets, closed, adapter, last, window, wire, client>>

\* what a step sends: events to the caller, the acknowledgement, and the
\* broadcasts (socket.to(room).emit) with the sockets each one reaches
Step(op, sid, out, ack, bcast, threw) ==
    [op |-> op, sid |-> sid, out |-> out, ack |-> ack, bcast |-> bcast, threw |-> threw]

NoAck == Undef

IdleStep == Step("idle", "none", <<>>, NoAck, <<>>, FALSE)

\* the event loop is single-threaded: a handler or timer callback starts
\* only when no other is running
Ready == alive /\ last.op = "idle"

Init ==
    /\ now = 0
    /\ alive = TRUE
    /\ connectionCounts = <<>>
    /\ rooms = <<>>
    /\ sockets = <<>>
    /\ closed = {}
    /\ adapter = {}
    /\ last = IdleStep
    /\ window = [ip \in Addresses |-> [opened |-> -1, attempts |-> 0, before |-> 0]]
    /\ wire = [sent |-> [x \in SocketIds |-> <<>>],
               inbox |-> [x \in SocketIds |-> <<>>],
               outbox |-> [x \in SocketIds |-> <<>>],
               received |-> [x \in SocketIds |-> <<>>]]
    /\ client = [generated |-> Undef,
                 signalingState |-> "stable",
                 remoteDescription |-> FALSE,
                 iceCandidateQueue |-> <<>>,
                 handlers |-> <<>>,
                 started |-> 0,
                 arrived |-> 0,
                 queued |-> <<>>,
                 handed |-> <<>>]

(***************************************************************************)
(* Connection admission: io.use middleware.                                *)
(***************************************************************************)
\* variant: the comparison count > MAX_CONNECTIONS_PER_IP
RateLimitOffByOne(counts, clientIP, t) ==
    IF ~MapHas(counts, clientIP)
    THEN [admit |-> TRUE,
          counts |-> MapSet(counts, clientIP, [count |-> 1, firstConnection |-> t])]
    ELSE LET ipData == MapGet(counts, clientIP) IN
         IF t - ipData.firstConnection <= RATE_LIMIT_WINDOW
         THEN IF ipData.count > MAX_CONNECTIONS_PER_IP
              THEN [admit |-> FALSE, counts |-> counts]
              ELSE [admit |-> TRUE,
                    counts |-> MapSet(counts, clientIP,
                                      [ipData EXCEPT !.count = @ + 1])]
         ELSE [admit |-> TRUE,
               counts |-> MapSet(counts, clientIP,
                                 [count |-> 1, firstConnection |-> t])]

\* variant: an expired window restarts its count but keeps its start
RateLimitStaleStart(counts, clientIP, t) ==
    IF ~MapHas(counts, clientIP)
    THEN [admit |-> TRUE,
          counts |-> MapSet(counts, clientIP, [count |-> 1, firstConnection |-> t])]
    ELSE LET ipData == MapGet(counts, clientIP) IN
         IF t - ipData.firstConnection <= RATE_LIMIT_WINDOW
         THEN IF ipData.count >= MAX_CONNECTIONS_PER_IP
              THEN [admit |-> FALSE, counts |-> counts]
              ELSE [admit |-> TRUE,
                    counts |-> MapSet(counts, clientIP,
                                      [ipData EXCEPT !.count = @ + 1])]
         ELSE [admit |-> TRUE,
               counts |-> MapSet(counts, clientIP,
                                 [ipData EXCEPT !.count = 1])]

\* variant: a refused attempt restarts the window
RateLimitSliding(counts, clientIP, t) ==
    IF ~MapHas(counts, clientIP)
    THEN [admit |-> TRUE,
          counts |-> MapSet(counts, clientIP, [count |-> 1, firstConnection |-> t])]
    ELSE LET ipData == MapGet(counts, clientIP) IN
         IF t - ipData.firstConnection <= RATE_LIMIT_WINDOW
         THEN IF ipData.count >= MAX_CONNECTIONS_PER_IP
              THEN [admit |-> FALSE,
                    counts |-> MapSet(counts, clientIP,
                                      [ipData EXCEPT !.firstConnection = t])]
              ELSE [admit |-> TRUE,
                    counts |-> MapSet(counts, clientIP,
                                      [ipData EXCEPT !.count = @ + 1])]
         ELSE [admit |-> TRUE,
               counts |-> MapSet(counts, clientIP,
                                 [count |-> 1, firstConnection |-> t])]

\* the middleware's decision and the map it leaves
RateLimit(counts, clientIP, t) ==
    IF ~MapHas(counts, clientIP)
    THEN [admit |-> TRUE,
          counts |-> MapSet(counts, clientIP, [count |-> 1, firstConnection |-> t])]
    ELSE LET ipData == MapGet(counts, clientIP) IN
         IF t - ipData.firstConnection <= RATE_LIMIT_WINDOW
         THEN IF ipData.count >= MAX_CONNECTIONS_PER_IP
              THEN [admit |-> FALSE, counts |-> counts]
              ELSE [admit |-> TRUE,
                    counts |-> MapSet(counts, clientIP,
                                      [ipData EXCEPT !.count = @ + 1])]
         ELSE [admit |-> TRUE,
               counts |-> MapSet(counts, clientIP,
                                 [count |-> 1, firstConnection |-> t])]

\* history of the attempts of one address, kept apart from the program's map
Observe(w, t) ==
    IF w.opened = -1 \/ t - w.opened > RATE_LIMIT_WINDOW
    THEN [opened |-> t, attempts |-> 1, before |-> w.attempts]
    ELSE [w EXCEPT !.attempts = IF @ < MaxCounted THEN @ + 1 ELSE @]

\* the id the next connection gets
FreshSocket ==
    {SocketOrder[i] : i \in {j \in 1..Len(SocketOrder) :
        /\ SocketOrder[j] \notin DOMAIN sockets \cup closed
        /\ \A k \in 1..(j - 1) : SocketOrder[k] \in DOMAIN sockets \cup closed}}

\* variant: next() is called after next(new Error(...)) as well, and the
\* refused socket is connected
ConnectAnyway(s, ip) ==
    /\ Ready
    /\ s \in FreshSocket \cup {Other}
    /\ LET r == RateLimit(connectionCounts, ip, now) IN
       /\ connectionCounts' = r.counts
       /\ sockets' = IF s # Other THEN (s :> ip) @@ sockets ELSE sockets
       /\ closed' = closed
       /\ last' = IF r.admit
                  THEN Step("connect", s, <<[event |-> "connect", data |-> Undef]>>,
                            NoAck, <<>>, FALSE)
                  ELSE Step("connect", s,
                            <<[event |-> "connect_error",
                               data |-> Lit("Rate limit exceeded")]>>,
                            NoAck, <<>>, FALSE)
    /\ window' = [window EXCEPT ![ip] = Observe(@, now)]
    /\ UNCHANGED <<now, alive, rooms, adapter, wire, client>>

\* a connection attempt from address ip; the socket would get the id s
Connect(s, ip) ==
    /\ Ready
    /\ s \in FreshSocket \cup {Other}
    /\ LET r == RateLimit(connectionCounts, ip, now) IN
       /\ connectionCounts' = r.counts
       /\ sockets' = IF r.admit /\ s # Other THEN (s :> ip) @@ sockets ELSE sockets
       /\ closed' = IF ~r.admit /\ s # Other THEN closed \cup {s} ELSE closed
       /\ last' = IF r.admit
                  THEN Step("connect", s, <<[event |-> "connect", data |-> Undef]>>,
                            NoAck, <<>>, FALSE)
                  ELSE Step("connect", s,
                            <<[event |-> "connect_error",
                               data |-> Lit("Rate limit exceeded")]>>,
                            NoAck, <<>>, FALSE)
    /\ window' = [window EXCEPT ![ip] = Observe(@, now)]
    /\ UNCHANGED <<now, alive, rooms, adapter, wire, client>>

\* variant: the entries are dropped from the last instant of their window on
CleanConnectionCountsEarly(counts, t) ==
    SelectSeq(counts, LAMBDA e : ~(t - e.v.firstConnection >= RATE_LIMIT_WINDOW))

\* setInterval, every RATE_LIMIT_WINDOW: drop the entries whose window is over
CleanConnectionCounts(counts, t) ==
    SelectSeq(counts, LAMBDA e : ~(t - e.v.firstConnection > RATE_LIMIT_WINDOW))

RateSweep ==
    /\ Ready
    /\ connectionCounts' = CleanConnectionCounts(connectionCounts, now)
    /\ last' = Step("rate-sweep", "none", <<>>, NoAck, <<>>, FALSE)
    /\ UNCHANGED <<now, alive, rooms, sockets, closed, adapter, window, wire, client>>

\* time passes, between handlers: the clock reads t from now on
Tick(t) ==
    /\ Ready
    /\ t > now
    /\ now' = t
    /\ UNCHANGED <<alive, connectionCounts, rooms, sockets, closed, adapter, last, window, wire, client>>

\* the handler returns to the event loop
Return ==
    /\ last.op # "idle"
    /\ last' = IdleStep
    /\ UNCHANGED <<now, alive, connectionCounts, rooms, sockets, closed, adapter, window, wire, client>>

(***************************************************************************)
(* The room registry and the handlers of one connection.                   *)
(***************************************************************************)
\* socket.id as it is sent in a payload
Sid(s) == Lit(s)

\* variant: io.to(roomId).emit, which reaches the sender too
BroadcastToAll(ad, roomId, s, event, data) ==
    [room |-> roomId,
     event |-> event,
     data |-> data,
     to |-> {x \in SocketIds : <<roomId, x>> \in ad}]

\* variant: the event goes to every socket that is in some room
BroadcastEverywhere(ad, roomId, s, event, data) ==
    [room |-> roomId,
     event |-> event,
     data |-> data,
     to |-> {x \in SocketIds : \E p \in ad : p[2] = x} \ {s}]

\* socket.to(roomId).emit(event, data): the sockets subscribed to roomId in
\* the adapter, the sender excepted
Broadcast(ad, roomId, s, event, data) ==
    [room |-> roomId,
     event |-> event,
     data |-> data,
     to |-> {x \in SocketIds : <<roomId, x>> \in ad} \ {s}]

\* if (callback) callback(value): calling a truthy non-function throws
Ack(callback, value) ==
    IF ~Truthy(callback)
    THEN [ack |-> NoAck, threw |-> FALSE]
    ELSE IF TypeOf(callback) = "function"
         THEN [ack |-> value, threw |-> FALSE]
         ELSE [ack |-> NoAck, threw |-> TRUE]

\* join-room, lines 289-305: the two payload formats
JoinArgs(data) ==
    CASE TypeOf(data) = "string" ->
            [kind |-> "ok", roomId |-> data, passwordHash |-> Null,
             isProtected |-> Bool(FALSE)]
      [] TypeOf(data) = "object" /\ Throws(data) ->
            [kind |-> "throw", roomId |-> Undef, passwordHash |-> Null,
             isProtected |-> Bool(FALSE)]
      [] TypeOf(data) = "object" /\ Truthy(Field(data, "roomId")) ->
            [kind |-> "ok",
             roomId |-> Field(data, "roomId"),
             passwordHash |-> OrElse(Field(data, "passwordHash"), Null),
             isProtected |-> OrElse(Field(data, "isProtected"), Bool(FALSE))]
      [] OTHER ->
            [kind |-> "invalid", roomId |-> Undef, passwordHash |-> Null,
             isProtected |-> Bool(FALSE)]

NewRoom(passwordHash, t) ==
    [users |-> {}, passwordHash |-> passwordHash, createdAt |-> t]

\* variant: a protected join sets the hash of a room that is already there
CreateRoomOverwriting(m, roomId, passwordHash, isProtected, t) ==
    IF Truthy(isProtected) /\ Truthy(passwordHash)
    THEN IF ~MapHas(m, roomId)
         THEN MapSet(m, roomId, NewRoom(passwordHash, t))
         ELSE MapSet(m, roomId, [MapGet(m, roomId) EXCEPT !.passwordHash = passwordHash])
    ELSE IF ~MapHas(m, roomId)
         THEN MapSet(m, roomId, NewRoom(Null, t))
         ELSE m

\* variant: a join stamps the room that is already there with the time
CreateRoomRestamping(m, roomId, passwordHash, isProtected, t) ==
    IF ~MapHas(m, roomId)
    THEN MapSet(m, roomId,
                NewRoom(IF Truthy(isProtected) /\ Truthy(passwordHash)
                        THEN passwordHash ELSE Null, t))
    ELSE MapSet(m, roomId, [MapGet(m, roomId) EXCEPT !.createdAt = t])

\* variant: the hash alone decides, the flag is not looked at
CreateRoomIgnoringFlag(m, roomId, passwordHash, isProtected, t) ==
    IF ~MapHas(m, roomId)
    THEN MapSet(m, roomId,
                NewRoom(IF Truthy(passwordHash) THEN passwordHash ELSE Null, t))
    ELSE m

\* join-room, lines 313-331: create the room unless it is there
CreateRoom(m, roomId, passwordHash, isProtected, t) ==
    IF Truthy(isProtected) /\ Truthy(passwordHash)
    THEN IF ~MapHas(m, roomId)
         THEN MapSet(m, roomId, NewRoom(passwordHash, t))
         ELSE m
    ELSE IF ~MapHas(m, roomId)
         THEN MapSet(m, roomId, NewRoom(Null, t))
         ELSE m

\* variant: the member set is left alone
AddUserNothing(m, roomId, s) == m

\* room.users.add(socket.id)
AddUser(m, roomId, s) ==
    [m EXCEPT ![MapIndex(m, roomId)].v.users = @ \cup {s}]

\* variant: the socket is not subscribed
SocketJoinNothing(ad, roomId, s) == ad

\* socket.join(roomId)
SocketJoin(ad, roomId, s) == ad \cup {<<roomId, s>>}

\* what a handler does to the registry and the subscriptions, and what it sends
Effect(m, ad, step) == [rooms |-> m, adapter |-> ad, step |-> step]

\* the handler of a message of socket s runs to its end; when it throws, the
\* exception is not caught and the process exits
Run(s, e) ==
    /\ Ready
    /\ s \in DOMAIN sockets
    /\ rooms' = e.rooms
    /\ adapter' = e.adapter
    /\ last' = e.step
    /\ alive' = ~e.step.threw
    /\ UNCHANGED <<now, connectionCounts, sockets, closed, window, client>>

\* a handler, the connections left out of the picture
Handle(s, e) == Run(s, e) /\ UNCHANGED wire

\* join-room, lines 302-304 and 308-310
JoinRejected(s, callback, message, error) ==
    LET k == Ack(callback, Obj([success |-> Bool(FALSE), error |-> Lit(error)])) IN
    Effect(rooms, adapter,
           Step("join-room", s, <<[event |-> "error", data |-> Lit(message)]>>,
                k.ack, <<>>, k.threw))

\* variant: a join to a protected room compares the hash it carries with
\* the stored one
JoinRoomEffectChecking(s, data, callback) ==
    LET a == JoinArgs(data) IN
    CASE a.kind = "throw" ->
            Effect(rooms, adapter, Step("join-room", s, <<>>, NoAck, <<>>, TRUE))
      [] a.kind = "invalid" ->
            JoinRejected(s, callback, "Invalid join-room data", "Invalid data")
      [] a.kind = "ok" /\ ~isValidRoomId(a.roomId) ->
            JoinRejected(s, callback, "Invalid room ID format", "Invalid room ID")
      [] /\ a.kind = "ok"
         /\ isValidRoomId(a.roomId)
         /\ MapHas(rooms, a.roomId)
         /\ Truthy(MapGet(rooms, a.roomId).passwordHash)
         /\ MapGet(rooms, a.roomId).passwordHash # a.passwordHash ->
            JoinRejected(s, callback, "Invalid password", "Invalid password")
      [] OTHER ->
            LET k == Ack(callback, Obj([success |-> Bool(TRUE), roomId |-> a.roomId]))
                joined == SocketJoin(adapter, a.roomId, s)
            IN
            Effect(AddUser(CreateRoom(rooms, a.roomId, a.passwordHash,
                                      a.isProtected, now),
                           a.roomId, s),
                   joined,
                   Step("join-room", s, <<>>, k.ack,
                        IF k.threw
                        THEN <<>>
                        ELSE <<Broadcast(joined, a.roomId, s, "user-joined", Sid(s))>>,
                        k.threw))

\* join-room, lines 287-346
JoinRoomEffect(s, data, callback) ==
    LET a == JoinArgs(data) IN
    CASE a.kind = "throw" ->
            Effect(rooms, adapter, Step("join-room", s, <<>>, NoAck, <<>>, TRUE))
      [] a.kind = "invalid" ->
            JoinRejected(s, callback, "Invalid join-room data", "Invalid data")
      [] a.kind = "ok" /\ ~isValidRoomId(a.roomId) ->
            JoinRejected(s, callback, "Invalid room ID format", "Invalid room ID")
      [] OTHER ->
            LET k == Ack(callback, Obj([success |-> Bool(TRUE), roomId |-> a.roomId]))
                joined == SocketJoin(adapter, a.roomId, s)
            IN
            Effect(AddUser(CreateRoom(rooms, a.roomId, a.passwordHash,
                                      a.isProtected, now),
                           a.roomId, s),
                   joined,
                   Step("join-room", s, <<>>, k.ack,
                        IF k.threw
                        THEN <<>>
                        ELSE <<Broadcast(joined, a.roomId, s, "user-joined", Sid(s))>>,
                        k.threw))

JoinRoom(s, data, callback) == Handle(s, JoinRoomEffect(s, data, callback))

\* socket.on(event, ({ roomId, ... }) => ...): destructuring the payload
Destructure(payload, name) == Field(payload, name)

\* variant: isProtected: !room.passwordHash
CheckRoomReplyNegated(m, roomId) ==
    IF ~isValidRoomId(roomId)
    THEN [event |-> "room-not-found", data |-> Undef]
    ELSE IF ~MapHas(m, roomId)
         THEN [event |-> "room-not-found", data |-> Undef]
         ELSE LET room == MapGet(m, roomId) IN
              [event |-> "room-info",
               data |-> Obj([exists |-> Bool(TRUE),
                             isProtected |-> Bool(~Truthy(room.passwordHash)),
                             hasUsers |-> Bool(Cardinality(room.users) > 0)])]

\* check-room, lines 239-257: the event emitted to the caller
CheckRoomReply(m, roomId) ==
    IF ~isValidRoomId(roomId)
    THEN [event |-> "room-not-found", data |-> Undef]
    ELSE IF ~MapHas(m, roomId)
         THEN [event |-> "room-not-found", data |-> Undef]
         ELSE LET room == MapGet(m, roomId) IN
              [event |-> "room-info",
               data |-> Obj([exists |-> Bool(TRUE),
                             isProtected |-> Bool(Truthy(room.passwordHash)),
                             hasUsers |-> Bool(Cardinality(room.users) > 0)])]

\* check-room, lines 238-258
CheckRoomEffect(s, payload) ==
    IF Throws(payload)
    THEN Effect(rooms, adapter, Step("check-room", s, <<>>, NoAck, <<>>, TRUE))
    ELSE Effect(rooms, adapter,
                Step("check-room", s,
                     <<CheckRoomReply(rooms, Destructure(payload, "roomId"))>>,
                     NoAck, <<>>, FALSE))

CheckRoom(s, payload) == Handle(s, CheckRoomEffect(s, payload))

\* variant: plain equality, without the typeof test
PasswordValidAnyType(m, roomId, passwordHash) ==
    IF ~isValidRoomId(roomId)
    THEN FALSE
    ELSE IF ~MapHas(m, roomId)
         THEN FALSE
         ELSE MapGet(m, roomId).passwordHash = passwordHash

\* verify-password, lines 262-277: the value of `valid`
PasswordValid(m, roomId, passwordHash) ==
    IF ~isValidRoomId(roomId) \/ TypeOf(passwordHash) # "string"
    THEN FALSE
    ELSE IF ~MapHas(m, roomId)
         THEN FALSE
         ELSE MapGet(m, roomId).passwordHash = passwordHash

\* variant: verifying against a room that exists also enters it
VerifyPasswordEffectJoining(s, payload) ==
    IF Throws(payload)
    THEN Effect(rooms, adapter, Step("verify-password", s, <<>>, NoAck, <<>>, TRUE))
    ELSE LET roomId == Destructure(payload, "roomId")
             valid == PasswordValid(rooms, roomId, Destructure(payload, "passwordHash"))
         IN
         Effect(IF MapHas(rooms, roomId) THEN AddUser(rooms, roomId, s) ELSE rooms,
                IF MapHas(rooms, roomId) THEN SocketJoin(adapter, roomId, s) ELSE adapter,
                Step("verify-password", s,
                     <<[event |-> "password-verified",
                        data |-> Obj([valid |-> Bool(valid)])]>>,
                     NoAck, <<>>, FALSE))

\* variant: a room that is not there is answered with room-not-found
VerifyPasswordEffectTelling(s, payload) ==
    IF Throws(payload)
    THEN Effect(rooms, adapter, Step("verify-password", s, <<>>, NoAck, <<>>, TRUE))
    ELSE LET roomId == Destructure(payload, "roomId")
             valid == PasswordValid(rooms, roomId, Destructure(payload, "passwordHash"))
         IN
         Effect(rooms, adapter,
                Step("verify-password", s,
                     IF isValidRoomId(roomId) /\ ~MapHas(rooms, roomId)
                     THEN <<[event |-> "room-not-found", data |-> Undef]>>
                     ELSE <<[event |-> "password-verified",
                             data |-> Obj([valid |-> Bool(valid)])]>>,
                     NoAck, <<>>, FALSE))

\* verify-password, lines 261-284
VerifyPasswordEffect(s, payload) ==
    IF Throws(payload)
    THEN Effect(rooms, adapter, Step("verify-password", s, <<>>, NoAck, <<>>, TRUE))
    ELSE Effect(rooms, adapter,
                Step("verify-password", s,
                     <<[event |-> "password-verified",
                        data |-> Obj([valid |->
                            Bool(PasswordValid(rooms,
                                               Destructure(payload, "roomId"),
                                               Destructure(payload, "passwordHash")))])]>>,
                     NoAck, <<>>, FALSE))

VerifyPassword(s, payload) == Handle(s, VerifyPasswordEffect(s, payload))

\* a relay handler: drop silently, or broadcast to the rest of the room
Relay(s, op, accepted, roomId, data) ==
    Effect(rooms, adapter,
           Step(op, s, <<>>, NoAck,
                IF accepted
                THEN <<Broadcast(adapter, roomId, s, op, data)>>
                ELSE <<>>,
                FALSE))

\* variant: only the room id is validated
SdpAcceptedAnyBody(data) == isValidSocketData(data)

\* offer and answer, lines 349-361
SdpAccepted(data) == ~(~isValidSocketData(data) \/ ~Truthy(Field(data, "sdp")))

\* variant: the `from` of the payload is forwarded when it has one
SdpPayloadTrusting(s, data) ==
    Obj([sdp |-> Field(data, "sdp"),
         from |-> IF Field(data, "from") = Undef THEN Sid(s) ELSE Field(data, "from")])

SdpPayload(s, data) == Obj([sdp |-> Field(data, "sdp"), from |-> Sid(s)])

OfferEffect(s, data) ==
    Relay(s, "offer", SdpAccepted(data), Field(data, "roomId"), SdpPayload(s, data))

Offer(s, data) == Handle(s, OfferEffect(s, data))

AnswerEffect(s, data) ==
    Relay(s, "answer", SdpAccepted(data), Field(data, "roomId"), SdpPayload(s, data))

Answer(s, data) == Handle(s, AnswerEffect(s, data))

\* ice-candidate, lines 363-368
CandidateAccepted(data) ==
    ~(~isValidSocketData(data) \/ ~Truthy(Field(data, "candidate")))

CandidatePayload(s, data) ==
    Obj([candidate |-> Field(data, "candidate"), from |-> Sid(s)])

IceCandidateEffect(s, data) ==
    Relay(s, "ice-candidate", CandidateAccepted(data), Field(data, "roomId"),
          CandidatePayload(s, data))

IceCandidate(s, data) == Handle(s, IceCandidateEffect(s, data))

\* 10 * 1024 * 1024 * 1024 = 10 * 2^30
MaxFileSize == Num(10, 0)

\* a < b on numbers
NumLess(a, b) == a.hi < b.hi \/ (a.hi = b.hi /\ a.lo < b.lo)

\* variant: size >= 10 * 1024 * 1024 * 1024 is turned away
FileMetaAcceptedBelowLimit(data) ==
    /\ ~(\/ ~isValidSocketData(data)
         \/ ~Truthy(Field(data, "metadata"))
         \/ TypeOf(Field(data, "metadata")) # "object")
    /\ LET name == Field(Field(data, "metadata"), "name")
           size == Field(Field(data, "metadata"), "size")
       IN ~(\/ TypeOf(name) # "string"
            \/ TypeOf(size) # "number"
            \/ NumLess(size, Num(0, 0))
            \/ ~NumLess(size, MaxFileSize))

\* file-meta, lines 372-380
FileMetaAccepted(data) ==
    /\ ~(\/ ~isValidSocketData(data)
         \/ ~Truthy(Field(data, "metadata"))
         \/ TypeOf(Field(data, "metadata")) # "object")
    /\ LET name == Field(Field(data, "metadata"), "name")
           size == Field(Field(data, "metadata"), "size")
       IN ~(\/ TypeOf(name) # "string"
            \/ TypeOf(size) # "number"
            \/ NumLess(size, Num(0, 0))
            \/ NumLess(MaxFileSize, size))

\* file-meta, lines 371-383
FileMetaEffect(s, data) ==
    Relay(s, "file-meta", FileMetaAccepted(data), Field(data, "roomId"),
          Field(data, "metadata"))

FileMeta(s, data) == Handle(s, FileMetaEffect(s, data))

\* transfer-done and transfer-confirmed, lines 385-397
TransferDoneEffect(s, data) ==
    Relay(s, "transfer-done", isValidSocketData(data), Field(data, "roomId"), Undef)

TransferDone(s, data) == Handle(s, TransferDoneEffect(s, data))

TransferConfirmedEffect(s, data) ==
    Relay(s, "transfer-confirmed", isValidSocketData(data), Field(data, "roomId"),
          Undef)

TransferConfirmed(s, data) == Handle(s, TransferConfirmedEffect(s, data))

\* disconnect, lines 399-417.  socket.io has already taken the socket out of
\* every adapter room when the handler runs.
LeaveAll(ad, s) == {p \in ad : p[2] # s}

\* variant: the test room.users.has(socket.id) is left out
RoomsOfAll(m, s) == m

\* the rooms the handler visits that hold s, in the Map's order
RoomsOf(m, s) == SelectSeq(m, LAMBDA e : s \in e.v.users)

\* variant: the emptied rooms stay
LeaveRoomsKeepingEmpty(m, s) ==
    [i \in 1..Len(m) |-> [m[i] EXCEPT !.v.users = @ \ {s}]]

\* variant: the loop stops after the first room that holds s
LeaveFirstRoom(m, s) ==
    IF RoomsOf(m, s) = <<>>
    THEN m
    ELSE LET first == RoomsOf(m, s)[1].k IN
         SelectSeq([i \in 1..Len(m) |->
                       IF m[i].k = first
                       THEN [m[i] EXCEPT !.v.users = @ \ {s}]
                       ELSE m[i]],
                   LAMBDA e : ~(e.k = first /\ Cardinality(e.v.users) = 0))

\* the registry the handler leaves: s removed, the rooms it emptied deleted
LeaveRooms(m, s) ==
    SelectSeq([i \in 1..Len(m) |-> [m[i] EXCEPT !.v.users = @ \ {s}]],
              LAMBDA e : ~(s \in MapGet(m, e.k).users /\ Cardinality(e.v.users) = 0))

DisconnectEffect(s) ==
    LET left == RoomsOf(rooms, s)
        gone == LeaveAll(adapter, s)
    IN
    Effect(LeaveRooms(rooms, s), gone,
           Step("disconnect", s, <<>>, NoAck,
                [i \in 1..Len(left) |->
                    Broadcast(gone, left[i].k, s, "user-left",
                              Obj([userId |-> Sid(s)]))],
                FALSE))

Disconnect(s) ==
    /\ Ready
    /\ s \in DOMAIN sockets
    /\ LET e == DisconnectEffect(s) IN
       /\ rooms' = e.rooms
       /\ adapter' = e.adapter
       /\ last' = e.step
    /\ sockets' = [x \in DOMAIN sockets \ {s} |-> sockets[x]]
    /\ closed' = closed \cup {s}
    /\ UNCHANGED <<now, alive, connectionCounts, window, wire, client>>

\* variant: the sweep goes by age alone
CleanRoomsByAge(m, t) ==
    SelectSeq(m, LAMBDA e : ~(t - e.v.createdAt > ROOM_TIMEOUT))

\* setInterval, every 10 minutes, lines 192-204
CleanRooms(m, t) ==
    SelectSeq(m, LAMBDA e :
        ~(t - e.v.createdAt > ROOM_TIMEOUT /\ Cardinality(e.v.users) = 0))

RoomSweep ==
    /\ Ready
    /\ rooms' = CleanRooms(rooms, now)
    /\ last' = Step("room-sweep", "none", <<>>, NoAck, <<>>, FALSE)
    /\ UNCHANGED <<now, alive, connectionCounts, sockets, closed, adapter, window, wire, client>>

(***************************************************************************)
(* What clients send.                                                      *)
(***************************************************************************)
\* "ABCDEFGH": 8 characters
RoomA == Str(<<"A", "B", "C", "D", "E", "F", "G", "H">>)

\* "room0123456789Z": 15 characters
RoomB ==
    Str(<<"r", "o", "o", "m", "0", "1", "2", "3", "4", "5", "6", "7", "8", "9", "Z">>)

ValidRoomIds == {RoomA, RoomB}

\* 7 characters, 16 characters, a character outside the class, the empty
\* string, and values that are no strings
InvalidRoomIds ==
    {Str(<<"A", "B", "C", "D", "E", "F", "G">>),
     Str(<<"r", "o", "o", "m", "0", "1", "2", "3", "4", "5", "6", "7", "8", "9", "Z", "Z">>),
     Str(<<"A", "B", "C", "D", "-", "F", "G", "H">>),
     Str(<<>>),
     Num(0, 12345678),
     Null,
     Undef}

RoomIdValues == ValidRoomIds \cup InvalidRoomIds

HashA == Str(<<"a", "1">>)

HashB == Str(<<"b", "2">>)

\* the values a passwordHash field takes: two hashes, the empty string, a
\* number, null, and a missing field
HashValues == {HashA, HashB, Str(<<>>), Num(0, 5), Null, Undef}

\* the hashes sent when joining
JoinHashes == {HashA, Str(<<>>), Num(0, 5), Undef}

\* no acknowledgement, an acknowledgement function, an argument that is no function
NoCallback == Undef

NotAFunction == Str(<<"x">>)

\* join-room payloads: the legacy form (any value that is no object), the
\* extended form for RoomA with every hash and flag, and the extended form
\* with each other id
JoinPayloads ==
    RoomIdValues
    \cup {Obj([roomId |-> RoomA, passwordHash |-> h, isProtected |-> p]) :
            h \in JoinHashes, p \in {Bool(TRUE), Bool(FALSE), Undef}}
    \cup {Obj([roomId |-> r, passwordHash |-> HashA, isProtected |-> Bool(TRUE)]) :
            r \in InvalidRoomIds}

\* each payload with an acknowledgement function; some without one, and
\* some with a second argument that is no function
JoinInputs ==
    {<<d, Fn>> : d \in JoinPayloads}
    \cup {<<d, cb>> : d \in {RoomA, RoomB, Null, Str(<<>>), Num(0, 12345678)},
                      cb \in {NoCallback, NotAFunction}}

CheckPayloads == {Obj([roomId |-> r]) : r \in RoomIdValues} \cup {Null, Undef}

VerifyPayloads ==
    {Obj([roomId |-> RoomA, passwordHash |-> h]) : h \in HashValues}
    \cup {Obj([roomId |-> r, passwordHash |-> HashA]) : r \in {RoomB} \cup InvalidRoomIds}
    \cup {Null, Undef}

\* a session description / a candidate: opaque to the server
Blob == Obj([type |-> Lit("blob")])

SdpPayloads ==
    {Obj([roomId |-> r, sdp |-> Blob]) : r \in RoomIdValues}
    \cup {Obj([roomId |-> RoomA, sdp |-> v]) : v \in {Undef, Null, Str(<<>>)}}
    \cup {Obj([roomId |-> RoomA, sdp |-> Blob, from |-> Sid("s2"), to |-> Sid("s3")])}
    \cup {Null, Undef, RoomA}

CandidatePayloads ==
    {Obj([roomId |-> r, candidate |-> Blob]) : r \in RoomIdValues}
    \cup {Obj([roomId |-> RoomA, candidate |-> v]) : v \in {Undef, Null, Str(<<>>)}}
    \cup {Obj([roomId |-> RoomA, candidate |-> Blob, from |-> Sid("s2"), to |-> Sid("s3")])}
    \cup {Null, Undef, RoomA}

FileName == Str(<<"f">>)

\* sizes 0, 10 GiB, 10 GiB + 1 and -1; names that are empty or no text; a
\* size that is no number; metadata that is no object
Metadatas ==
    {Obj([name |-> FileName, size |-> Num(0, 0)]),
     Obj([name |-> FileName, size |-> Num(10, 0)]),
     Obj([name |-> FileName, size |-> Num(10, 1)]),
     Obj([name |-> FileName, size |-> Num(-1, 1073741823)]),
     Obj([name |-> Str(<<>>), size |-> Num(0, 1)]),
     Obj([name |-> Num(0, 1), size |-> Num(0, 1)]),
     Obj([name |-> FileName, size |-> Str(<<"1">>)]),
     FileName,
     Undef}

FileMetaPayloads ==
    {Obj([roomId |-> RoomA, metadata |-> m]) : m \in Metadatas}
    \cup {Obj([roomId |-> r, metadata |-> Obj([name |-> FileName, size |-> Num(0, 0)])]) :
            r \in {RoomB} \cup InvalidRoomIds}
    \cup {Null, Undef}

StatusPayloads == {Obj([roomId |-> r]) : r \in RoomIdValues} \cup {Null, Undef, RoomA}

Handlers(s) ==
    \/ Disconnect(s)
    \/ \E d \in CheckPayloads : CheckRoom(s, d)
    \/ \E d \in VerifyPayloads : VerifyPassword(s, d)
    \/ \E in \in JoinInputs : JoinRoom(s, in[1], in[2])
    \/ \E d \in SdpPayloads : Offer(s, d)
    \/ \E d \in SdpPayloads : Answer(s, d)
    \/ \E d \in CandidatePayloads : IceCandidate(s, d)
    \/ \E d \in FileMetaPayloads : FileMeta(s, d)
    \/ \E d \in StatusPayloads : TransferDone(s, d)
    \/ \E d \in StatusPayloads : TransferConfirmed(s, d)

\* the sockets whose next message the event loop can take up
Callers == IF Ready THEN DOMAIN sockets ELSE {}

\* the server with up to three connections from one address, before and
\* after the room timeout
Next ==
    \/ \E s \in SocketIds : Connect(s, "ip1")
    \/ \E s \in Callers : Handlers(s)
    \/ RateSweep
    \/ RoomSweep
    \/ \E t \in Instants : Tick(t)
    \/ Return

Spec == Init /\ [][Next]_vars

\* the admission control across the end of a window: two connections from
\* the first address that may join a room, any number of further
\* connections from it, and a few from a second address
NextRate ==
    \/ \E s \in {"s1", "s2", Other} : Connect(s, "ip1")
    \/ /\ Observe(window["ip2"], now).attempts <= MaxQuietAttempts
       /\ Connect(Other, "ip2")
    \/ \E s \in Callers : Disconnect(s)
    \/ \E s \in Callers : JoinRoom(s, RoomA, Fn)
    \/ RateSweep
    \/ \E t \in RateInstants : Tick(t)
    \/ Return

SpecRate == Init /\ [][NextRate]_vars

(***************************************************************************)
(* The relay seen from the clients.  A connection carries the events of a  *)
(* client to the server, and the events of the server to a client, in the  *)
(* order in which they were emitted; the server runs one handler at a      *)
(* time, for the oldest pending event of some connection, and the handler  *)
(* emits before it returns.                                                *)
(***************************************************************************)
\* the events one client emits
MaxEmitted == 2

\* the events a client emits on the relay: all of them name RoomA
FifoMessages ==
    {[event |-> "offer", data |-> Obj([roomId |-> RoomA, sdp |-> Blob])],
     [event |-> "transfer-done", data |-> Obj([roomId |-> RoomA])]}

\* the clients that emit them
FifoSenders == {"s1", "s2"}

\* socket.on(event, handler): the handler registered for the event
RelayEffect(s, event, data) ==
    CASE event = "offer" -> OfferEffect(s, data)
      [] event = "answer" -> AnswerEffect(s, data)
      [] event = "ice-candidate" -> IceCandidateEffect(s, data)
      [] event = "file-meta" -> FileMetaEffect(s, data)
      [] event = "transfer-done" -> TransferDoneEffect(s, data)
      [] event = "transfer-confirmed" -> TransferConfirmedEffect(s, data)

\* variant: the event overtakes the ones still on their way to the client
ForwardAhead(queue, delivery) == <<delivery>> \o queue

\* socket.to(roomId).emit(event, data), for one recipient: the event is
\* written to the recipient's connection, behind the ones written before
Forward(queue, delivery) == Append(queue, delivery)

\* client x emits its next event; n is its position among the events of x
Emit(x, m) ==
    /\ alive
    /\ x \in DOMAIN sockets
    /\ Len(wire.sent[x]) < MaxEmitted
    /\ wire' = [wire EXCEPT
                  !.sent[x] = Append(@, m),
                  !.inbox[x] = Append(@, [n |-> Len(wire.sent[x]) + 1,
                                          event |-> m.event, data |-> m.data])]
    /\ UNCHANGED <<now, alive, connectionCounts, rooms, sockets, closed, adapter,
                   last, window, client>>

\* the server runs the handler of the oldest pending event of connection x
Process(x) ==
    /\ wire.inbox[x] # <<>>
    /\ LET m == Head(wire.inbox[x])
           e == RelayEffect(x, m.event, m.data)
           heard(y) == \E i \in 1..Len(e.step.bcast) : y \in e.step.bcast[i].to
       IN
       /\ Run(x, e)
       /\ wire' = [wire EXCEPT
                     !.inbox[x] = Tail(@),
                     !.outbox = [y \in SocketIds |->
                                   IF heard(y)
                                   THEN Forward(@[y], [from |-> x, n |-> m.n,
                                                       event |-> e.step.bcast[1].event,
                                                       data |-> e.step.bcast[1].data])
                                   ELSE @[y]]]

\* client y receives the oldest event on its connection
Receive(y) ==
    /\ wire.outbox[y] # <<>>
    /\ wire' = [wire EXCEPT
                  !.outbox[y] = Tail(@),
                  !.received[y] = Append(@, Head(wire.outbox[y]))]
    /\ UNCHANGED <<now, alive, connectionCounts, rooms, sockets, closed, adapter,
                   last, window, client>>

\* three connections that join RoomA at any time, two of them emitting
NextFifo ==
    \/ \E s \in SocketIds : Connect(s, "ip1")
    \/ \E s \in Callers : JoinRoom(s, RoomA, Fn)
    \/ \E x \in FifoSenders : \E m \in FifoMessages : Emit(x, m)
    \/ \E x \in SocketIds : Process(x)
    \/ \E y \in SocketIds : Receive(y)
    \/ Return

SpecFifo == Init /\ [][NextFifo]_vars

\* the instants of the timers: the last instant of a window opened at 0,
\* the first one after it, and the first one after a window opened then
TimerInstants ==
    {0, RATE_LIMIT_WINDOW, RATE_LIMIT_WINDOW + 1, 2 * RATE_LIMIT_WINDOW + 2}

\* the instant after which no address connects any more
LastCall == RATE_LIMIT_WINDOW + 1

\* the admission control and its sweep: two addresses connect a few times
\* per window up to LastCall and then stop; time passes, and setInterval
\* fires the sweep again and again
NextSweep ==
    \/ \E ip \in Addresses :
          /\ now <= LastCall
          /\ Observe(window[ip], now).attempts <= MaxQuietAttempts
          /\ Connect(Other, ip)
    \/ RateSweep
    \/ \E t \in TimerInstants : Tick(t)
    \/ Return

SpecSweep ==
    /\ Init
    /\ [][NextSweep]_vars
    /\ WF_vars(RateSweep)
    /\ WF_vars(Return)
    /\ SF_vars(\E t \in TimerInstants : Tick(t))

\* join-room messages for two rooms: the legacy form, and the extended form
\* that protects RoomA
RoomJoins ==
    {<<RoomA, Fn>>, <<RoomB, Fn>>,
     <<Obj([roomId |-> RoomA, passwordHash |-> HashA, isProtected |-> Bool(TRUE)]), Fn>>}

\* the handlers that name a room, on two rooms: three connections join
\* either room, or both, and relay to them
NextRooms ==
    \/ \E s \in SocketIds : Connect(s, "ip1")
    \/ \E s \in Callers : \E in \in RoomJoins : JoinRoom(s, in[1], in[2])
    \/ \E s \in Callers : \E r \in ValidRoomIds :
          Offer(s, Obj([roomId |-> r, sdp |-> Blob]))
    \/ \E s \in Callers : \E r \in ValidRoomIds :
          TransferDone(s, Obj([roomId |-> r]))
    \/ Return

SpecRooms == Init /\ [][NextRooms]_vars

(***************************************************************************)
(* The browser page: generateSecureRoomId.                                 *)
(***************************************************************************)
\* the digits of Number.prototype.toString(36)
Digits36 ==
    <<"0", "1", "2", "3", "4", "5", "6", "7", "8", "9", "a", "b", "c", "d", "e", "f",
      "g", "h", "i", "j", "k", "l", "m", "n", "o", "p", "q", "r", "s", "t", "u", "v",
      "w", "x", "y", "z">>

\* a non-negative integer as its digits in base 2^15, the most significant
\* first: Date.now() is larger than 2^31
RECURSIVE DivMod36(_, _)
\* the quotient and the remainder of the division by 36, carry being the
\* remainder the more significant digits left
DivMod36(limbs, carry) ==
    IF limbs = <<>>
    THEN [q |-> <<>>, r |-> carry]
    ELSE LET cur == carry * 32768 + Head(limbs)
             rest == DivMod36(Tail(limbs), cur % 36)
         IN [q |-> <<cur \div 36>> \o rest.q, r |-> rest.r]

IsZero(limbs) == \A i \in 1..Len(limbs) : limbs[i] = 0

RECURSIVE ToDigits36(_)
ToDigits36(limbs) ==
    IF IsZero(limbs)
    THEN <<>>
    ELSE LET d == DivMod36(limbs, 0) IN ToDigits36(d.q) \o <<Digits36[d.r + 1]>>

\* n.toString(36), n an integer that is not negative
ToString36(limbs) == IF IsZero(limbs) THEN <<"0">> ELSE ToDigits36(limbs)

\* Math.random().toString(36): "0" for 0, and "0." followed by the digits
\* of the fraction otherwise; the random number is given by these digits
RandomToString36(fraction) ==
    IF fraction = <<>> THEN <<"0">> ELSE <<"0", ".">> \o fraction

\* s.substring(from, to), 0 <= from <= to
Substring(s, from, to) ==
    SubSeq(s, (IF from < Len(s) THEN from ELSE Len(s)) + 1,
              IF to < Len(s) THEN to ELSE Len(s))

RECURSIVE JoinStrings(_)
\* parts.join('')
JoinStrings(parts) ==
    IF parts = <<>> THEN <<>> ELSE Head(parts) \o JoinStrings(Tail(parts))

\* generateSecureRoomId(), lines 334-342: crypto says whether
\* window.crypto.getRandomValues is there, array is what it fills in,
\* fraction is Math.random() and time is Date.now()
generateSecureRoomId(crypto, array, fraction, time) ==
    IF crypto
    THEN Str(Substring(JoinStrings([i \in 1..Len(array) |-> ToString36(<<array[i]>>)]),
                       0, 11))
    ELSE Str(Substring(RandomToString36(fraction), 2, 11) \o ToString36(time))

\* the bytes getRandomValues fills in: one digit (0, 9, 35) and two (36, 255)
ByteSamples == {0, 9, 35, 36, 255}

\* new Uint8Array(12) after getRandomValues: one byte up to a position,
\* another one from there on
RandomArrays ==
    {[i \in 1..12 |-> IF i <= k THEN b1 ELSE b2] :
        k \in 0..12, b1 \in ByteSamples, b2 \in ByteSamples}

\* the digits of the fraction of Math.random() in base 36, at most
MaxFraction == 11

\* Math.random(): 0, and fractions of 1 to MaxFraction digits
RandomFractions ==
    {[i \in 1..k |-> d] : k \in 0..MaxFraction, d \in {"1", "z"}}

\* Date.now(): 0, 36^7 - 1 (in 1972), 1762300000000 (in November 2025) and
\* 36^8 (in 2059), in base 2^15
Times == {<<0, 0, 0>>, <<72, 32188, 16383>>, <<1641, 8839, 30464>>, <<2627, 11906, 0>>}

\* the page generates its room id, once
Generate(crypto, array, fraction, time) ==
    /\ client.generated = Undef
    /\ client' = [client EXCEPT
                    !.generated = generateSecureRoomId(crypto, array, fraction, time)]
    /\ UNCHANGED <<now, alive, connectionCounts, rooms, sockets, closed, adapter,
                   last, window, wire>>

\* a page generates a room id, with or without window.crypto, connects and
\* sends join-room with the id
NextRoomId ==
    \/ \E array \in RandomArrays : Generate(TRUE, array, <<>>, <<0, 0, 0>>)
    \/ \E fraction \in RandomFractions : \E time \in Times :
          Generate(FALSE, <<>>, fraction, time)
    \/ Connect("s1", "ip1")
    \/ /\ client.generated # Undef
       /\ \E s \in Callers : JoinRoom(s, client.generated, Fn)
    \/ Return

SpecRoomId == Init /\ [][NextRoomId]_vars

(***************************************************************************)
(* The browser page: the signaling helpers.  One RTCPeerConnection pc and  *)
(* the global iceCandidateQueue.  handleOffer and handleAnswer are async:  *)
(* an activation runs up to its next await, and goes on when the awaited   *)
(* promise settles, other events being handled in between.  Candidates     *)
(* are numbered in the order of their arrival.                             *)
(***************************************************************************)
\* the candidates that arrive
MaxCandidates == 3

\* the offers and answers that arrive, and the offers the page makes
MaxHandlers == 3

\* variant: iceCandidateQueue.pop()
TakeLast(queue) ==
    [candidate |-> queue[Len(queue)], rest |-> SubSeq(queue, 1, Len(queue) - 1)]

\* iceCandidateQueue.shift()
TakeNext(queue) == [candidate |-> Head(queue), rest |-> Tail(queue)]

\* the activation i returns
Returned(c, i) ==
    [c EXCEPT !.handlers = SubSeq(@, 1, i - 1) \o SubSeq(@, i + 1, Len(@))]

\* pc.addIceCandidate(candidate) is called
Handed(c, candidate, fromQueue) ==
    [c EXCEPT !.handed = Append(@, [candidate |-> candidate, fromQueue |-> fromQueue,
                                    remote |-> c.remoteDescription])]

\* processQueuedIceCandidates, lines 218-228, from the test of the loop to
\* the next await, in activation i
Drain(c, i) ==
    IF Len(c.iceCandidateQueue) > 0
    THEN LET n == TakeNext(c.iceCandidateQueue) IN
         [Handed(c, n.candidate, TRUE) EXCEPT
             !.iceCandidateQueue = n.rest,
             !.handlers[i].at = "addIceCandidate"]
    ELSE Returned(c, i)

\* an action of the page
Page(c) ==
    /\ client' = c
    /\ UNCHANGED <<now, alive, connectionCounts, rooms, sockets, closed, adapter,
                   last, window, wire>>

\* handleOffer, lines 165-167, up to the first await
OfferArrives ==
    /\ client.started < MaxHandlers
    /\ Page([client EXCEPT
                !.started = @ + 1,
                !.handlers = IF client.signalingState = "stable"
                             THEN Append(@, [fn |-> "handleOffer",
                                             at |-> "setRemoteDescription"])
                             ELSE @])

\* handleAnswer, lines 183-186, up to the first await
AnswerArrives ==
    /\ client.started < MaxHandlers
    /\ Page([client EXCEPT
                !.started = @ + 1,
                !.handlers = IF client.signalingState = "have-local-offer"
                             THEN Append(@, [fn |-> "handleAnswer",
                                             at |-> "setRemoteDescription"])
                             ELSE @])

\* the page that sends has made its offer: handleAnswer, line 184, expects
\* pc in have-local-offer
LocalOffer ==
    /\ client.started < MaxHandlers
    /\ client.signalingState = "stable"
    /\ Page([client EXCEPT !.started = @ + 1, !.signalingState = "have-local-offer"])

\* setRemoteDescription settles in activation i.  It fulfils only in a
\* signaling state that takes the description; when it rejects, the catch
\* block ends the handler.  handleOffer goes on to createAnswer (line 168),
\* handleAnswer to processQueuedIceCandidates (line 190).
SetRemoteDescriptionSettles(i, fulfilled) ==
    /\ i \in 1..Len(client.handlers)
    /\ client.handlers[i].at = "setRemoteDescription"
    /\ LET h == client.handlers[i] IN
       IF fulfilled
       THEN /\ client.signalingState \in
                  (IF h.fn = "handleOffer"
                   THEN {"stable", "have-remote-offer"}
                   ELSE {"have-local-offer"})
            /\ IF h.fn = "handleOffer"
               THEN Page([client EXCEPT
                             !.remoteDescription = TRUE,
                             !.signalingState = "have-remote-offer",
                             !.handlers[i].at = "createAnswer"])
               ELSE Page(Drain([client EXCEPT
                                   !.remoteDescription = TRUE,
                                   !.signalingState = "stable"], i))
       ELSE Page(Returned(client, i))

\* createAnswer settles, lines 168-169: it rejects outside have-remote-offer
CreateAnswerSettles(i) ==
    /\ i \in 1..Len(client.handlers)
    /\ client.handlers[i].at = "createAnswer"
    /\ IF client.signalingState = "have-remote-offer"
       THEN Page([client EXCEPT !.handlers[i].at = "setLocalDescription"])
       ELSE Page(Returned(client, i))

\* setLocalDescription(answer) settles, lines 169-175: it rejects outside
\* have-remote-offer; otherwise the answer is emitted and the queue drained
SetLocalDescriptionSettles(i) ==
    /\ i \in 1..Len(client.handlers)
    /\ client.handlers[i].at = "setLocalDescription"
    /\ IF client.signalingState = "have-remote-offer"
       THEN Page(Drain([client EXCEPT !.signalingState = "stable"], i))
       ELSE Page(Returned(client, i))

\* addIceCandidate settles in the loop, lines 221-226: fulfilled or
\* rejected, the loop goes on
AddIceCandidateSettles(i) ==
    /\ i \in 1..Len(client.handlers)
    /\ client.handlers[i].at = "addIceCandidate"
    /\ Page(Drain(client, i))

\* handleIceCandidate, lines 198-214
CandidateArrives ==
    /\ client.arrived < MaxCandidates
    /\ LET n == client.arrived + 1 IN
       IF client.remoteDescription
       THEN Page([Handed(client, n, FALSE) EXCEPT !.arrived = n])
       ELSE Page([client EXCEPT
                     !.arrived = n,
                     !.iceCandidateQueue = Append(@, n),
                     !.queued = Append(@, n)])

Settles ==
    \E i \in 1..MaxHandlers :
        \/ \E fulfilled \in BOOLEAN : SetRemoteDescriptionSettles(i, fulfilled)
        \/ CreateAnswerSettles(i)
        \/ SetLocalDescriptionSettles(i)
        \/ AddIceCandidateSettles(i)

NextIce ==
    \/ OfferArrives
    \/ AnswerArrives
    \/ LocalOffer
    \/ CandidateArrives
    \/ Settles

\* every promise an activation awaits settles
SpecIce == Init /\ [][NextIce]_vars /\ WF_vars(Settles)

(***************************************************************************)
(* Vocabulary of the properties.  A property of a handler is stated of     *)
(* its effect in every state in which the handler can run, for every       *)
(* socket and every payload.                                               *)
(***************************************************************************)
\* every delivery of a step: <<recipient, event, data>>
Deliveries(step) ==
    UNION {{<<x, step.bcast[i].event, step.bcast[i].data>> : x \in step.bcast[i].to} :
             i \in 1..Len(step.bcast)}

\* the members of the room with this id; none when there is no such room
Members(m, roomId) == IF MapHas(m, roomId) THEN MapGet(m, roomId).users ELSE {}

\* a well-formed room id: a string of 8 to 15 letters and digits
WellFormed(v) ==
    /\ v.t = "string"
    /\ Len(v.s) \in 8..15
    /\ {v.s[i] : i \in 1..Len(v.s)} \subseteq Lower \cup Upper \cup Digits

\* the room id a payload carries: the payload itself in the legacy form of
\* join-room, its roomId field otherwise
CarriedRoomId(data) == IF data.t = "object" THEN Field(data, "roomId") ELSE Undef

JoinedRoomId(data) == IF data.t = "object" THEN Field(data, "roomId") ELSE data

Emitted(step, event, data) == step.out = <<[event |-> event, data |-> data]>>

\* the handler ran to its end and reported no error
Succeeded(step) == ~step.threw /\ step.out = <<>>

\* the registry and the subscriptions are as before and nobody else hears of it
Untouched(e) == e.rooms = rooms /\ e.adapter = adapter /\ Deliveries(e.step) = {}

(***************************************************************************)
(* C1.  A room id that is not a string of 8 to 15 alphanumeric characters  *)
(* changes nothing: whichever of check-room, verify-password, join-room,   *)
(* offer, answer, ice-candidate, file-meta, transfer-done and              *)
(* transfer-confirmed carries it, the room registry stays exactly as it    *)
(* was and nothing is delivered to any other connection.                   *)
(***************************************************************************)
C1_InvalidRoomIdChangesNothing ==
    Ready =>
    \A s \in DOMAIN sockets :
        LET Bad(d) == ~WellFormed(CarriedRoomId(d)) IN
        /\ \A d \in CheckPayloads : Bad(d) => Untouched(CheckRoomEffect(s, d))
        /\ \A d \in VerifyPayloads : Bad(d) => Untouched(VerifyPasswordEffect(s, d))
        /\ \A in \in JoinInputs :
            ~WellFormed(JoinedRoomId(in[1]))
                => Untouched(JoinRoomEffect(s, in[1], in[2]))
        /\ \A d \in SdpPayloads : Bad(d) => Untouched(OfferEffect(s, d))
        /\ \A d \in SdpPayloads : Bad(d) => Untouched(AnswerEffect(s, d))
        /\ \A d \in CandidatePayloads : Bad(d) => Untouched(IceCandidateEffect(s, d))
        /\ \A d \in FileMetaPayloads : Bad(d) => Untouched(FileMetaEffect(s, d))
        /\ \A d \in StatusPayloads : Bad(d) => Untouched(TransferDoneEffect(s, d))
        /\ \A d \in StatusPayloads : Bad(d) => Untouched(TransferConfirmedEffect(s, d))

\* a join-room with an ill-formed room id has been refused while another
\* connection sits in a room
C1_Witness ==
    /\ last.op = "join-room"
    /\ Emitted(last, "error", Lit("Invalid room ID format"))
    /\ \E i \in 1..Len(rooms) : rooms[i].v.users \ {last.sid} # {}

(***************************************************************************)
(* C2.  Joins of several connections to a room id that is not yet in the   *)
(* registry are processed one after the other, in any order.  Whatever     *)
(* the order, the registry holds exactly one record for the id; the join   *)
(* processed first fixes its protection (the hash it supplied when it      *)
(* asked for protection with a non-empty hash, none otherwise); a join     *)
(* that finds the record leaves the protection alone; and check-room       *)
(* answers every caller with the isProtected of that record.               *)
(***************************************************************************)
\* the protection a join-room payload asks for
ProtectionOf(data) ==
    IF /\ data.t = "object"
       /\ Truthy(Field(data, "isProtected"))
       /\ Truthy(Field(data, "passwordHash"))
    THEN Field(data, "passwordHash")
    ELSE Null

C2_FirstJoinFixesTheRoom ==
    Ready =>
    \A s \in DOMAIN sockets :
        /\ \A in \in JoinInputs :
            LET r == JoinedRoomId(in[1])
                e == JoinRoomEffect(s, in[1], in[2])
            IN
            WellFormed(r) =>
                /\ Cardinality({i \in 1..Len(e.rooms) : e.rooms[i].k = r}) = 1
                /\ ~MapHas(rooms, r) =>
                    /\ Len(e.rooms) = Len(rooms) + 1
                    /\ MapGet(e.rooms, r).passwordHash = ProtectionOf(in[1])
                /\ MapHas(rooms, r) =>
                    /\ Len(e.rooms) = Len(rooms)
                    /\ MapGet(e.rooms, r).passwordHash = MapGet(rooms, r).passwordHash
                /\ CheckRoomReply(e.rooms, r).event = "room-info"
                /\ Field(CheckRoomReply(e.rooms, r).data, "isProtected")
                       = Bool(Truthy(MapGet(e.rooms, r).passwordHash))
        /\ \A r \in ValidRoomIds :
            MapHas(rooms, r) =>
                LET reply == CheckRoomEffect(s, Obj([roomId |-> r])).step.out[1] IN
                /\ reply.event = "room-info"
                /\ Field(reply.data, "isProtected")
                       = Bool(Truthy(MapGet(rooms, r).passwordHash))

\* a second connection has joined the protected room a first one created
C2_Witness ==
    /\ last.op = "join-room"
    /\ Succeeded(last)
    /\ MapHas(rooms, RoomA)
    /\ MapGet(rooms, RoomA).passwordHash = HashA
    /\ last.sid \in Members(rooms, RoomA)
    /\ Cardinality(Members(rooms, RoomA)) >= 2

(***************************************************************************)
(* C3.  As long as a room record is in the registry, no step changes its   *)
(* passwordHash or its createdAt: not a join-room with another hash or     *)
(* flag, not check-room, verify-password or a relayed message, not the     *)
(* disconnect of a member, not a sweep.                                    *)
(***************************************************************************)
C3_HashAndCreationTimeAreFixed ==
    [][\A i \in 1..Len(rooms) :
          MapHas(rooms', rooms[i].k) =>
              /\ MapGet(rooms', rooms[i].k).passwordHash = rooms[i].v.passwordHash
              /\ MapGet(rooms', rooms[i].k).createdAt = rooms[i].v.createdAt]_vars

\* a connection has joined, after the room timeout, a protected room
\* created at the start
C3_Witness ==
    /\ last.op = "join-room"
    /\ Succeeded(last)
    /\ now > ROOM_TIMEOUT
    /\ MapHas(rooms, RoomA)
    /\ last.sid \in Members(rooms, RoomA)
    /\ MapGet(rooms, RoomA).createdAt = 0
    /\ MapGet(rooms, RoomA).passwordHash = HashA

(***************************************************************************)
(* C4.  verify-password with room id r and hash h answers valid: true      *)
(* exactly when h is a string and a room with id r is in the registry      *)
(* whose passwordHash equals h.  So any other hash answers valid: false,   *)
(* every hash answers valid: false for an unprotected room, and a hash     *)
(* that is no string answers valid: false whatever the room holds.         *)
(***************************************************************************)
\* the answer of verify-password to this payload is valid: v
Answers(s, d, v) ==
    Emitted(VerifyPasswordEffect(s, d).step, "password-verified",
            Obj([valid |-> Bool(v)]))

C4_ValidExactlyForTheStoredString ==
    Ready =>
    \A s \in DOMAIN sockets :
        \A d \in VerifyPayloads :
            ~Throws(d) =>
                LET r == Field(d, "roomId")
                    h == Field(d, "passwordHash")
                IN
                /\ Answers(s, d, /\ TypeOf(h) = "string"
                                 /\ MapHas(rooms, r)
                                 /\ MapGet(rooms, r).passwordHash = h)
                /\ MapHas(rooms, r) /\ MapGet(rooms, r).passwordHash = Null
                       => Answers(s, d, FALSE)

\* the statement without the condition on the type of h: valid: true
\* exactly when the room exists and was created with passwordHash = h
C4_ValidExactlyForTheStoredValue ==
    Ready =>
    \A s \in DOMAIN sockets :
        \A d \in VerifyPayloads :
            ~Throws(d) =>
                LET r == Field(d, "roomId")
                    h == Field(d, "passwordHash")
                IN
                Answers(s, d, /\ MapHas(rooms, r)
                              /\ MapGet(rooms, r).passwordHash = h)

\* verify-password has answered valid: true
C4_Witness ==
    /\ last.op = "verify-password"
    /\ Emitted(last, "password-verified", Obj([valid |-> Bool(TRUE)]))
    /\ MapHas(rooms, RoomA)
    /\ MapGet(rooms, RoomA).passwordHash = HashA

(***************************************************************************)
(* C5.  A join-room of connection B to room R that succeeds delivers       *)
(* user-joined, carrying B's id, to every member of R other than B and to  *)
(* nobody else: never to B, and to nobody when B is alone in R.            *)
(***************************************************************************)
C5_UserJoinedReachesTheOthers ==
    Ready =>
    \A s \in DOMAIN sockets :
        \A in \in JoinInputs :
            LET r == JoinedRoomId(in[1])
                e == JoinRoomEffect(s, in[1], in[2])
            IN
            Succeeded(e.step) =>
                /\ s \in Members(e.rooms, r)
                /\ Deliveries(e.step) =
                       {<<x, "user-joined", Sid(s)>> : x \in Members(e.rooms, r) \ {s}}

\* a third connection has joined a room: both others are told
C5_Witness ==
    /\ last.op = "join-room"
    /\ Succeeded(last)
    /\ Deliveries(last) =
           {<<x, "user-joined", Sid(last.sid)>> : x \in SocketIds \ {last.sid}}

(***************************************************************************)
(* C6.  When connection A disconnects, each room R that held A gets one    *)
(* user-left with userId A, delivered to exactly the members of R that     *)
(* remain; R leaves the registry if and only if A was its last member;     *)
(* the rooms that did not hold A stay as they are.                         *)
(***************************************************************************)
C6_DisconnectLeavesEveryRoom ==
    Ready =>
    \A s \in DOMAIN sockets :
        LET e == DisconnectEffect(s)
            held == {r \in MapKeys(rooms) : s \in Members(rooms, r)}
        IN
        /\ Len(e.step.bcast) = Cardinality(held)
        /\ \A r \in held :
            /\ \E i \in 1..Len(e.step.bcast) :
                   e.step.bcast[i] =
                       [room |-> r, event |-> "user-left",
                        data |-> Obj([userId |-> Sid(s)]),
                        to |-> Members(rooms, r) \ {s}]
            /\ MapHas(e.rooms, r) <=> Members(rooms, r) # {s}
            /\ Members(e.rooms, r) = Members(rooms, r) \ {s}
        /\ \A r \in MapKeys(rooms) \ held :
            MapHas(e.rooms, r) /\ MapGet(e.rooms, r) = MapGet(rooms, r)
        /\ MapKeys(e.rooms) \subseteq MapKeys(rooms)

\* a connection that was alone in one room and in company in another has
\* disconnected
C6_Witness ==
    /\ last.op = "disconnect"
    /\ Len(last.bcast) = 2
    /\ \E i, j \in 1..2 :
        /\ last.bcast[i].to = {}
        /\ ~MapHas(rooms, last.bcast[i].room)
        /\ last.bcast[j].to # {}
        /\ Members(rooms, last.bcast[j].room) = last.bcast[j].to

(***************************************************************************)
(* C7.  An offer, answer, ice-candidate, file-meta, transfer-done or       *)
(* transfer-confirmed of connection X that passes validation and names     *)
(* room R is delivered to every member of R other than X, and to nobody    *)
(* else: not to X, whatever the number of members.                         *)
(***************************************************************************)
\* the effect delivers this event to the members of room r other than s
ReachesTheOthers(e, s, r, event, data) ==
    Deliveries(e.step) = {<<x, event, data>> : x \in Members(rooms, r) \ {s}}

C7_RelayReachesTheOthers ==
    Ready =>
    \A s \in DOMAIN sockets :
        /\ \A d \in SdpPayloads :
            SdpAccepted(d) =>
                /\ ReachesTheOthers(OfferEffect(s, d), s, Field(d, "roomId"),
                                    "offer", SdpPayload(s, d))
                /\ ReachesTheOthers(AnswerEffect(s, d), s, Field(d, "roomId"),
                                    "answer", SdpPayload(s, d))
        /\ \A d \in CandidatePayloads :
            CandidateAccepted(d) =>
                ReachesTheOthers(IceCandidateEffect(s, d), s, Field(d, "roomId"),
                                 "ice-candidate", CandidatePayload(s, d))
        /\ \A d \in FileMetaPayloads :
            FileMetaAccepted(d) =>
                ReachesTheOthers(FileMetaEffect(s, d), s, Field(d, "roomId"),
                                 "file-meta", Field(d, "metadata"))
        /\ \A d \in StatusPayloads :
            isValidSocketData(d) =>
                /\ ReachesTheOthers(TransferDoneEffect(s, d), s, Field(d, "roomId"),
                                    "transfer-done", Undef)
                /\ ReachesTheOthers(TransferConfirmedEffect(s, d), s,
                                    Field(d, "roomId"), "transfer-confirmed", Undef)

\* a member of a room of three has sent file-meta: the two others get it
C7_Witness ==
    /\ last.op = "file-meta"
    /\ Len(last.bcast) = 1
    /\ Members(rooms, last.bcast[1].room) = SocketIds
    /\ last.bcast[1].to = SocketIds \ {last.sid}

(***************************************************************************)
(* C8.  Once join-room with a well-formed room id has been processed for   *)
(* connection C, C is a member of the room with that id, and the           *)
(* acknowledgement function, when there is one, has been called with       *)
(* success: true and the room id that was asked for.                       *)
(***************************************************************************)
C8_JoinAddsAndAcknowledges ==
    Ready =>
    \A s \in DOMAIN sockets :
        \A in \in JoinInputs :
            LET r == JoinedRoomId(in[1])
                e == JoinRoomEffect(s, in[1], in[2])
            IN
            WellFormed(r) =>
                /\ s \in Members(e.rooms, r)
                /\ in[2] = Fn =>
                    e.step.ack = Obj([success |-> Bool(TRUE), roomId |-> r])
                /\ in[2] = NoCallback => e.step.ack = NoAck /\ ~e.step.threw

\* a join of the 15-character room id has been acknowledged
C8_Witness ==
    /\ last.op = "join-room"
    /\ last.ack = Obj([success |-> Bool(TRUE), roomId |-> RoomB])
    /\ last.sid \in Members(rooms, RoomB)

(***************************************************************************)
(* C9.  Of the attempts of one address made within 60 seconds of the       *)
(* attempt that opened its window, the first ten are admitted and the      *)
(* eleventh and every later one is refused; what one address does leaves   *)
(* the count of every other address alone.                                 *)
(***************************************************************************)
C9_TenPerWindow ==
    Ready =>
    \A ip \in Addresses :
        LET r == RateLimit(connectionCounts, ip, now)
            w == Observe(window[ip], now)
        IN
        /\ r.admit <=> w.attempts <= MAX_CONNECTIONS_PER_IP
        /\ \A other \in Addresses \ {ip} :
            /\ MapHas(r.counts, other) <=> MapHas(connectionCounts, other)
            /\ MapHas(connectionCounts, other) =>
                   MapGet(r.counts, other) = MapGet(connectionCounts, other)

\* the eleventh attempt of a window has been refused, at its last instant,
\* while the other address has been admitted
C9_Witness ==
    /\ last.op = "connect"
    /\ Emitted(last, "connect_error", Lit("Rate limit exceeded"))
    /\ now = RATE_LIMIT_WINDOW
    /\ window["ip1"].opened = 0
    /\ window["ip1"].attempts = MAX_CONNECTIONS_PER_IP + 1
    /\ MapGet(connectionCounts, "ip1").count = MAX_CONNECTIONS_PER_IP
    /\ MapHas(connectionCounts, "ip2")

(***************************************************************************)
(* C10.  The first attempt of an address after the 60 seconds of its       *)
(* window have passed, counted from the attempt that opened the window,    *)
(* is admitted, also when the address was being refused, and the window    *)
(* starts again: count 1, start of the window the time of this attempt.    *)
(***************************************************************************)
C10_WindowStartsAgain ==
    Ready =>
    \A ip \in Addresses :
        window[ip].opened # -1 /\ now - window[ip].opened > RATE_LIMIT_WINDOW =>
            LET r == RateLimit(connectionCounts, ip, now) IN
            /\ r.admit
            /\ MapHas(r.counts, ip)
            /\ MapGet(r.counts, ip) = [count |-> 1, firstConnection |-> now]

\* an address that was being refused has been admitted after its window
C10_Witness ==
    /\ last.op = "connect"
    /\ Emitted(last, "connect", Undef)
    /\ now = RATE_LIMIT_WINDOW + 1
    /\ window["ip1"].before > MAX_CONNECTIONS_PER_IP
    /\ window["ip1"].attempts = 1
    /\ MapGet(connectionCounts, "ip1") = [count |-> 1, firstConnection |-> now]

(***************************************************************************)
(* C11.  A run of the room sweep removes exactly the rooms that, at that   *)
(* moment, have no member and were created more than 10 minutes ago, and   *)
(* leaves every other record as it is; a room with a member stays,         *)
(* whatever its age.  Between two handlers every room of the registry has  *)
(* a member (a join adds one to the room it creates, a disconnect deletes  *)
(* the room it empties), so the sweep is also applied to registries that   *)
(* hold empty rooms, on both sides of the timeout.                         *)
(***************************************************************************)
\* the sweep of registry m at time t removes the empty rooms older than
\* the timeout, and nothing else
SweepIsExact(m, t) ==
    LET kept == CleanRooms(m, t) IN
    /\ MapKeys(kept) =
           {r \in MapKeys(m) :
               ~(Members(m, r) = {} /\ t - MapGet(m, r).createdAt > 10 * 60 * 1000)}
    /\ \A r \in MapKeys(kept) : MapGet(kept, r) = MapGet(m, r)
    /\ Len(kept) = Cardinality(MapKeys(kept))

\* room records with and without a member, created at 0 and at 1
SweptRecords ==
    [users : {{}, {"s1"}}, passwordHash : {Null}, createdAt : {0, 1}]

\* registries of at most two such rooms
SweptRegistries ==
    {<<>>}
    \cup {<<[k |-> RoomA, v |-> x]>> : x \in SweptRecords}
    \cup {<<[k |-> RoomB, v |-> x], [k |-> RoomA, v |-> y]>> :
            x \in SweptRecords, y \in SweptRecords}

\* the last instant at which a room created at 0 is kept, and the next two
SweepInstants == {ROOM_TIMEOUT, ROOM_TIMEOUT + 1, ROOM_TIMEOUT + 2}

SweepIsExactOnEmptyRooms ==
    \A m \in SweptRegistries : \A t \in SweepInstants : SweepIsExact(m, t)

C11_SweepRemovesOldEmptyRooms ==
    /\ SweepIsExactOnEmptyRooms
    /\ Ready =>
        /\ SweepIsExact(rooms, now)
        /\ \A r \in MapKeys(rooms) :
            Members(rooms, r) # {} =>
                /\ MapHas(CleanRooms(rooms, now), r)
                /\ MapGet(CleanRooms(rooms, now), r) = MapGet(rooms, r)

\* the sweep has run past the timeout of a room that has a member: the
\* room is still there
C11_Witness ==
    /\ last.op = "room-sweep"
    /\ MapHas(rooms, RoomA)
    /\ now - MapGet(rooms, RoomA).createdAt > ROOM_TIMEOUT
    /\ Members(rooms, RoomA) # {}

(***************************************************************************)
(* C12.  The disconnect of a connection that is a member of no room        *)
(* changes nothing in the room registry and delivers nothing, user-left    *)
(* or other, to any connection.                                            *)
(***************************************************************************)
C12_DisconnectOutsideEveryRoom ==
    Ready =>
    \A s \in DOMAIN sockets :
        (\A r \in MapKeys(rooms) : s \notin Members(rooms, r)) =>
            LET e == DisconnectEffect(s) IN
            /\ Untouched(e)
            /\ e.step.bcast = <<>>
            /\ e.step.out = <<>>
            /\ ~e.step.threw

\* a connection that had joined nothing has disconnected while another
\* one sits in a room
C12_Witness ==
    /\ last.op = "disconnect"
    /\ last.bcast = <<>>
    /\ \E r \in MapKeys(rooms) : Members(rooms, r) # {}

(***************************************************************************)
(* C13.  check-room and verify-password never change the room registry,    *)
(* whatever they are sent and whatever they answer: no room is created,    *)
(* no member is added, and the caller of a verification that fails is as   *)
(* much outside the room as before.                                        *)
(***************************************************************************)
C13_QueriesLeaveTheRegistry ==
    [][last'.op \in {"check-room", "verify-password"} =>
          /\ rooms' = rooms
          /\ adapter' = adapter
          /\ Deliveries(last') = {}]_vars

\* a connection outside a protected room has had a verification refused
C13_Witness ==
    /\ last.op = "verify-password"
    /\ Emitted(last, "password-verified", Obj([valid |-> Bool(FALSE)]))
    /\ MapKeys(rooms) = {RoomA}
    /\ MapGet(rooms, RoomA).passwordHash = HashA
    /\ last.sid \notin Members(rooms, RoomA)

(***************************************************************************)
(* C14.  check-room answers room-not-found when the room id is ill-formed  *)
(* or no room with that id is in the registry; otherwise it answers        *)
(* room-info with exists true, isProtected true exactly when the room has  *)
(* a stored password hash, and hasUsers true exactly when the room has a   *)
(* member.  The answer goes to the caller and to nobody else.              *)
(***************************************************************************)
\* the answer to check-room for id r over registry m
CheckRoomAnswer(m, r) ==
    IF ~WellFormed(r) \/ ~MapHas(m, r)
    THEN [event |-> "room-not-found", data |-> Undef]
    ELSE [event |-> "room-info",
          data |-> Obj([exists |-> Bool(TRUE),
                        isProtected |-> Bool(MapGet(m, r).passwordHash # Null),
                        hasUsers |-> Bool(Members(m, r) # {})])]

\* registries with rooms that have no member: hasUsers is false of them
CheckRoomOnEmptyRooms ==
    \A m \in SweptRegistries : \A r \in RoomIdValues :
        CheckRoomReply(m, r) = CheckRoomAnswer(m, r)

C14_CheckRoomAnswers ==
    /\ CheckRoomOnEmptyRooms
    /\ Ready =>
        \A s \in DOMAIN sockets :
            \A d \in CheckPayloads :
                ~Throws(d) =>
                    LET e == CheckRoomEffect(s, d) IN
                    /\ e.step.out = <<CheckRoomAnswer(rooms, Field(d, "roomId"))>>
                    /\ e.step.sid = s
                    /\ e.step.ack = NoAck
                    /\ Deliveries(e.step) = {}

\* check-room has answered that a room is protected and has users
C14_Witness ==
    /\ last.op = "check-room"
    /\ Emitted(last, "room-info",
               Obj([exists |-> Bool(TRUE), isProtected |-> Bool(TRUE),
                    hasUsers |-> Bool(TRUE)]))

(***************************************************************************)
(* C15.  join-room to a room that exists and is password-protected         *)
(* succeeds and makes the caller a member whatever passwordHash it         *)
(* carries: the stored one, another one, an empty one, none at all (the    *)
(* legacy form included); the join does not depend on any earlier          *)
(* verify-password of the caller, and the stored hash stays.               *)
(***************************************************************************)
\* the join-room payloads for room r: the bare id, and the object with
\* every hash and flag, or with the id alone
JoinsOf(r) ==
    {r, Obj([roomId |-> r])}
    \cup {Obj([roomId |-> r, passwordHash |-> h, isProtected |-> p]) :
            h \in HashValues, p \in {Bool(TRUE), Bool(FALSE), Undef}}

C15_JoinAsksForNoPassword ==
    Ready =>
    \A s \in DOMAIN sockets :
        \A r \in ValidRoomIds :
            MapHas(rooms, r) /\ MapGet(rooms, r).passwordHash # Null =>
                \A d \in JoinsOf(r) :
                    LET e == JoinRoomEffect(s, d, Fn) IN
                    /\ Succeeded(e.step)
                    /\ e.step.ack = Obj([success |-> Bool(TRUE), roomId |-> r])
                    /\ s \in Members(e.rooms, r)
                    /\ MapGet(e.rooms, r).passwordHash = MapGet(rooms, r).passwordHash

\* a second connection has been let into a protected room
C15_Witness ==
    /\ last.op = "join-room"
    /\ last.ack = Obj([success |-> Bool(TRUE), roomId |-> RoomA])
    /\ MapHas(rooms, RoomA)
    /\ MapGet(rooms, RoomA).passwordHash = HashA
    /\ Cardinality(Members(rooms, RoomA)) = 2
    /\ Deliveries(last) # {}

(***************************************************************************)
(* C16.  A room created by join-room stores the hash the join carried      *)
(* exactly when the join carried isProtected true together with a          *)
(* non-empty passwordHash.  A join in the legacy form (the bare id), or    *)
(* with isProtected false or missing, or with an empty, null or missing    *)
(* hash, creates an unprotected room: passwordHash null.  The hashes are   *)
(* the strings, null and a missing field; the flags true, false and a      *)
(* missing field.                                                          *)
(***************************************************************************)
\* a hash that is a string of at least one character
NonEmptyText(h) == h.t = "string" /\ Len(h.s) > 0

\* the payloads of JoinsOf whose hash is a string, null or missing
TextJoinsOf(r) ==
    {d \in JoinsOf(r) : Field(d, "passwordHash").t \in {"string", "null", "undefined"}}

Refusal(e, cb) ==
    /\ ~e.step.threw
    /\ Len(e.step.out) = 1
    /\ e.step.out[1].event = "error"
    /\ e.step.out[1].data.t = "string"
    /\ cb = Fn =>
        /\ Field(e.step.ack, "success") = Bool(FALSE)
        /\ Field(e.step.ack, "error").t = "string"
    /\ Untouched(e)

C17_MalformedJoinIsRefused ==
    Ready =>
    \A s \in DOMAIN sockets :
        \A in \in JoinInputs :
            ~WellFormed(JoinedRoomId(in[1])) /\ in[2] \in {Fn, NoCallback} =>
                Refusal(JoinRoomEffect(s, in[1], in[2]), in[2])

(***************************************************************************)
(* C18.  An offer or answer without a well-formed room id or without sdp,  *)
(* an ice-candidate without a well-formed room id or without candidate,    *)
(* and a transfer-done or transfer-confirmed without a well-formed room    *)
(* id are dropped in silence: nothing is delivered to anybody, the sender  *)
(* gets no error and no other event, the handler does not fail, and the    *)
(* registry and the subscriptions, the sender's included, stay as they     *)
(* were.                                                                   *)
(***************************************************************************)
\* the field is not there, or is null or the empty string
Missing(v) == v \in {Undef, Null, Str(<<>>)}

Dropped(e) ==
    /\ Untouched(e)
    /\ e.step.bcast = <<>>
    /\ e.step.out = <<>>
    /\ e.step.ack = NoAck
    /\ ~e.step.threw

C18_InvalidRelayIsDropped ==
    Ready =>
    \A s \in DOMAIN sockets :
        /\ \A d \in SdpPayloads :
            ~WellFormed(CarriedRoomId(d)) \/ Missing(Field(d, "sdp")) =>
                Dropped(OfferEffect(s, d)) /\ Dropped(AnswerEffect(s, d))
        /\ \A d \in CandidatePayloads :
            ~WellFormed(CarriedRoomId(d)) \/ Missing(Field(d, "candidate")) =>
                Dropped(IceCandidateEffect(s, d))
        /\ \A d \in StatusPayloads :
            ~WellFormed(CarriedRoomId(d)) =>
                Dropped(TransferDoneEffect(s, d)) /\ Dropped(TransferConfirmedEffect(s, d))

\* an offer of a member of a room of two has been dropped
C18_Witness ==
    /\ last.op = "offer"
    /\ last.bcast = <<>>
    /\ ~last.threw
    /\ last.sid \in Members(rooms, RoomA)
    /\ Cardinality(Members(rooms, RoomA)) = 2

(***************************************************************************)
(* C19.  A file-meta with a well-formed room id is relayed to the other    *)
(* members of the room exactly when metadata is an object whose name is    *)
(* text, the empty text included, and whose size is a number with          *)
(* 0 <= size <= 10 GiB, the bound included.  In every other case (a name   *)
(* that is no text, a negative size, a size above 10 GiB, a size that is   *)
(* no number, no metadata) it is dropped and nothing is delivered.         *)
(***************************************************************************)
\* a number between 0 and 10 * 2^30, both included
SizeInRange(size) ==
    /\ size.t = "number"
    /\ size.hi >= 0
    /\ size.hi < 10 \/ (size.hi = 10 /\ size.lo = 0)

\* file-meta d of socket s is relayed when ok, dropped otherwise
RelayedExactlyWhen(s, d, ok) ==
    LET e == FileMetaEffect(s, d) IN
    IF ok
    THEN /\ Len(e.step.bcast) = 1
         /\ ReachesTheOthers(e, s, Field(d, "roomId"), "file-meta",
                             Field(d, "metadata"))
         /\ e.rooms = rooms
         /\ ~e.step.threw
    ELSE Dropped(e)

C19_FileMetaWithTextNameAndSizeInRange ==
    Ready =>
    \A s \in DOMAIN sockets :
        \A d \in FileMetaPayloads :
            WellFormed(CarriedRoomId(d)) =>
                LET meta == Field(d, "metadata") IN
                RelayedExactlyWhen(s, d, /\ meta.t = "object"
                                         /\ Field(meta, "name").t = "string"
                                         /\ SizeInRange(Field(meta, "size")))

\* the statement with a name that has to be non-empty text
C19_FileMetaWithNonEmptyName ==
    Ready =>
    \A s \in DOMAIN sockets :
        \A d \in FileMetaPayloads :
            WellFormed(CarriedRoomId(d)) =>
                LET meta == Field(d, "metadata") IN
                RelayedExactlyWhen(s, d, /\ meta.t = "object"
                                         /\ NonEmptyText(Field(meta, "name"))
                                         /\ SizeInRange(Field(meta, "size")))

\* the metadata of a file of exactly 10 GiB has reached another member
C19_Witness ==
    /\ last.op = "file-meta"
    /\ Len(last.bcast) = 1
    /\ last.bcast[1].data = Obj([name |-> FileName, size |-> Num(10, 0)])
    /\ last.bcast[1].to # {}

(***************************************************************************)
(* C20.  No message makes a handler fail.  Whatever the kind of the        *)
(* message and the shape of its payload (null, undefined, a number, a      *)
(* string, an object with fields missing, an acknowledgement argument      *)
(* that is no function), the handler ends in silence or in a structured    *)
(* refusal and raises no exception.  check-room with a null or missing     *)
(* payload answers room-not-found, verify-password answers valid: false,   *)
(* and join-room with a null payload answers with the error                *)
(* acknowledgement.                                                        *)
(***************************************************************************)
C20_NoHandlerThrows ==
    Ready =>
    \A s \in DOMAIN sockets :
        /\ \A d \in CheckPayloads :
            LET e == CheckRoomEffect(s, d) IN
            /\ ~e.step.threw
            /\ Throws(d) => Emitted(e.step, "room-not-found", Undef)
        /\ \A d \in VerifyPayloads :
            LET e == VerifyPasswordEffect(s, d) IN
            /\ ~e.step.threw
            /\ Throws(d) =>
                Emitted(e.step, "password-verified", Obj([valid |-> Bool(FALSE)]))
        /\ \A in \in JoinInputs :
            LET e == JoinRoomEffect(s, in[1], in[2]) IN
            /\ ~e.step.threw
            /\ in[1] = Null /\ in[2] = Fn =>
                Field(e.step.ack, "success") = Bool(FALSE)
        /\ \A d \in SdpPayloads :
            ~OfferEffect(s, d).step.threw /\ ~AnswerEffect(s, d).step.threw
        /\ \A d \in CandidatePayloads : ~IceCandidateEffect(s, d).step.threw
        /\ \A d \in FileMetaPayloads : ~FileMetaEffect(s, d).step.threw
        /\ \A d \in StatusPayloads :
            /\ ~TransferDoneEffect(s, d).step.threw
            /\ ~TransferConfirmedEffect(s, d).step.threw
        /\ ~DisconnectEffect(s).step.threw

(***************************************************************************)
(* C21.  A verify-password that fails is answered with one and the same    *)
(* message, password-verified with valid: false and nothing else,          *)
(* whatever made it fail: an ill-formed room id, a room that is not        *)
(* there, a room without password, another hash, a hash that is no         *)
(* string.  Two runs that differ in the reason alone show the caller the   *)
(* same answer.                                                            *)
(***************************************************************************)
\* why verify-password with this payload fails, "none" when it does not
FailureOf(d) ==
    LET r == Field(d, "roomId")
        h == Field(d, "passwordHash")
    IN
    CASE ~WellFormed(r) -> "ill-formed room id"
      [] h.t # "string" -> "hash is no string"
      [] ~MapHas(rooms, r) -> "no such room"
      [] MapGet(rooms, r).passwordHash = Null -> "room without password"
      [] MapGet(rooms, r).passwordHash # h -> "another hash"
      [] OTHER -> "none"

\* all that the caller, and anybody else, sees of a failure
FailedVerification(s) ==
    Step("verify-password", s,
         <<[event |-> "password-verified", data |-> Obj([valid |-> Bool(FALSE)])]>>,
         NoAck, <<>>, FALSE)

C21_FailuresLookAlike ==
    Ready =>
    \A s \in DOMAIN sockets :
        \A d \in VerifyPayloads :
            ~Throws(d) /\ FailureOf(d) # "none" =>
                VerifyPasswordEffect(s, d).step = FailedVerification(s)

\* a verification has failed on a room without password; payloads that
\* fail for each of the other reasons can be sent in the same state
C21_Witness ==
    /\ last = FailedVerification(last.sid)
    /\ MapKeys(rooms) = {RoomA}
    /\ MapGet(rooms, RoomA).passwordHash = Null
    /\ {FailureOf(d) : d \in {x \in VerifyPayloads : ~Throws(x)}} =
           {"ill-formed room id", "hash is no string", "no such room",
            "room without password"}

(***************************************************************************)
(* C22.  A connection attempt that the admission control refuses never     *)
(* reaches the handlers: the attempt leaves the room registry, the         *)
(* subscriptions and the set of connected sockets as they were, and the    *)
(* socket that was refused is a member of no room, then and ever after.    *)
(***************************************************************************)
\* the sockets that are connected, and no others, sit in rooms
OnlyConnectedSocketsInRooms ==
    /\ \A r \in MapKeys(rooms) : Members(rooms, r) \subseteq DOMAIN sockets
    /\ \A p \in adapter : p[2] \in DOMAIN sockets

C22_RefusedAttemptReachesNoHandler ==
    [][/\ last'.op = "connect" /\ last'.out[1].event = "connect_error" =>
            /\ rooms' = rooms
            /\ adapter' = adapter
            /\ sockets' = sockets
            /\ last'.sid \notin DOMAIN sockets'
       /\ OnlyConnectedSocketsInRooms']_vars

\* the socket "s2" has been refused while "s1" sits in a room
C22_Witness ==
    /\ last.op = "connect"
    /\ last.sid = "s2"
    /\ Emitted(last, "connect_error", Lit("Rate limit exceeded"))
    /\ "s2" \in closed
    /\ Members(rooms, RoomA) = {"s1"}

(***************************************************************************)
(* C23.  Once the disconnect of connection C has been processed, C's id    *)
(* is in the member set of no room of the registry, however many rooms C   *)
(* had joined; and it is in none ever after.                               *)
(***************************************************************************)
C23_DisconnectedSocketIsInNoRoom ==
    /\ \A s \in closed : \A r \in MapKeys(rooms) : s \notin Members(rooms, r)
    /\ Ready =>
        \A s \in DOMAIN sockets :
            LET e == DisconnectEffect(s) IN
            \A r \in MapKeys(e.rooms) : s \notin Members(e.rooms, r)

\* a connection that sat in two rooms, in company in both, has disconnected
C23_Witness ==
    /\ last.op = "disconnect"
    /\ last.sid \in closed
    /\ Len(last.bcast) = 2
    /\ last.bcast[1].to # {}
    /\ last.bcast[2].to # {}
    /\ MapKeys(rooms) = {RoomA, RoomB}

(***************************************************************************)
(* C24.  In every reachable state each room of the registry has at least   *)
(* one member or became empty less than the room timeout ago: no room      *)
(* without members outlives its grace period.  The code keeps the first    *)
(* half in every state, also right after a handler and after a handler     *)
(* that threw, so that no room is ever without members, for however short  *)
(* a time.                                                                 *)
(***************************************************************************)
C24_NoRoomOutlivesItsMembers ==
    \A i \in 1..Len(rooms) :
        /\ rooms[i].v.users # {}
        /\ rooms[i].v.users \subseteq DOMAIN sockets

\* the last member of a room has left, after the room timeout: the room
\* is gone at once, another one stays
C24_Witness ==
    /\ last.op = "disconnect"
    /\ now > ROOM_TIMEOUT
    /\ Len(last.bcast) = 1
    /\ ~MapHas(rooms, last.bcast[1].room)
    /\ rooms # <<>>

(***************************************************************************)
(* C25.  A run of the rate-limit sweep removes every entry whose window    *)
(* has expired, whether or not the address has connected again, and no     *)
(* entry whose window is still open.  With time passing and the timer      *)
(* firing again and again, an address that stops connecting ends up        *)
(* without an entry in the map, for good.                                  *)
(***************************************************************************)
\* the sweep of the map at time t keeps the entries whose window is open,
\* as they are and in their order, and no others
RateSweepIsExact(counts, t) ==
    LET kept == CleanConnectionCounts(counts, t) IN
    /\ MapKeys(kept) =
           {ip \in MapKeys(counts) : t - MapGet(counts, ip).firstConnection <= 60000}
    /\ \A ip \in MapKeys(kept) : MapGet(kept, ip) = MapGet(counts, ip)
    /\ Len(kept) = Cardinality(MapKeys(kept))

C25_ExpiredEntriesAreSwept ==
    /\ [](Ready => RateSweepIsExact(connectionCounts, now))
    /\ [](last.op = "rate-sweep" =>
            \A ip \in MapKeys(connectionCounts) :
                now - MapGet(connectionCounts, ip).firstConnection <= 60000)
    /\ \A ip \in Addresses : <>[](~MapHas(connectionCounts, ip))

\* the sweep has removed the entry of an address that connected at 0 and
\* not since, at the first instant after its window
C25_Witness ==
    /\ last.op = "rate-sweep"
    /\ now = RATE_LIMIT_WINDOW + 1
    /\ window["ip1"].opened = 0
    /\ window["ip1"].attempts > 0
    /\ ~MapHas(connectionCounts, "ip1")

(***************************************************************************)
(* C26.  A relayed offer or answer carries exactly the fields sdp and      *)
(* from, a relayed ice-candidate exactly candidate and from; from is the   *)
(* connection identifier of the connection that sent the message.  A from  *)
(* field or any other extra field of the inbound payload is not forwarded. *)
(***************************************************************************)
\* every message the effect emits has exactly the field `body`, as it came
\* in, and the field from, naming connection s
CarriesBodyAndSender(e, s, d, body) ==
    \A i \in 1..Len(e.step.bcast) :
        LET data == e.step.bcast[i].data IN
        /\ data.t = "object"
        /\ DOMAIN data.f = {body, "from"}
        /\ data.f[body] = Field(d, body)
        /\ data.f["from"] = Lit(s)

C26_RelayNamesTheActualSender ==
    Ready =>
    \A s \in DOMAIN sockets :
        /\ \A d \in SdpPayloads :
            /\ CarriesBodyAndSender(OfferEffect(s, d), s, d, "sdp")
            /\ CarriesBodyAndSender(AnswerEffect(s, d), s, d, "sdp")
        /\ \A d \in CandidatePayloads :
            CarriesBodyAndSender(IceCandidateEffect(s, d), s, d, "candidate")

\* connection s2 has received an answer of s1 that names s1, and one of the
\* answers s1 can send claims to come from s2
C26_Witness ==
    /\ last.op = "answer"
    /\ last.sid = "s1"
    /\ Len(last.bcast) = 1
    /\ "s2" \in last.bcast[1].to
    /\ last.bcast[1].data = Obj([sdp |-> Blob, from |-> Lit("s1")])
    /\ \E d \in SdpPayloads : Field(d, "from") = Lit("s2")

(***************************************************************************)
(* C27.  For every sender X and recipient Y, the relayed events that Y     *)
(* has received from X are events X emitted, in the order in which X       *)
(* emitted them, however the events of other senders are interleaved with  *)
(* them.                                                                   *)
(***************************************************************************)
C27_RelayKeepsTheSendersOrder ==
    \A y \in SocketIds :
        LET got == wire.received[y] IN
        /\ \A i \in 1..Len(got) :
            /\ got[i].from # y
            /\ got[i].n \in 1..Len(wire.sent[got[i].from])
            /\ got[i].event = wire.sent[got[i].from][got[i].n].event
        /\ \A i, j \in 1..Len(got) :
            i < j /\ got[i].from = got[j].from => got[i].n < got[j].n

\* s3 has received the two events of s1 with an event of s2 between them,
\* and s1 emitted two events of different kinds
C27_Witness ==
    LET got == wire.received["s3"] IN
    /\ Len(got) = 3
    /\ got[1].from = "s1" /\ got[2].from = "s2" /\ got[3].from = "s1"
    /\ got[1].event # got[3].event

(***************************************************************************)
(* C28.  Operations addressed to different room ids are independent.  A    *)
(* join-room or relay message for room R leaves the record, the members    *)
(* and the subscriptions of every other room as they were and is heard     *)
(* only by members of R; and what an operation on another room R' does -   *)
(* its deliveries, its acknowledgement, the record and the subscriptions   *)
(* of R' after it - is the same before and after the operation on R, so    *)
(* that the two give the same registry and the same deliveries in either   *)
(* order.                                                                  *)
(***************************************************************************)
\* the effect of an operation for room r is confined to room r
ConfinedTo(e, r) ==
    /\ \A r2 \in (MapKeys(rooms) \cup MapKeys(e.rooms)) \ {r} :
        /\ MapHas(e.rooms, r2) <=> MapHas(rooms, r2)
        /\ MapHas(rooms, r2) => MapGet(e.rooms, r2) = MapGet(rooms, r2)
    /\ {p \in e.adapter : p[1] # r} = {p \in adapter : p[1] # r}
    /\ \A d \in Deliveries(e.step) : d[1] \in Members(e.rooms, r)

\* what an operation does, as far as room r and the clients can tell
Outcome(e, r) ==
    [op |-> e.step.op,
     record |-> IF MapHas(e.rooms, r) THEN <<MapGet(e.rooms, r)>> ELSE <<>>,
     subscribed |-> {p \in e.adapter : p[1] = r},
     heard |-> Deliveries(e.step),
     out |-> e.step.out,
     ack |-> e.step.ack,
     threw |-> e.step.threw]

\* the outcomes, in the current state, of join-room and relay messages of
\* connection s that name room r
OutcomesOn(s, r) ==
    {Outcome(e, r) : e \in
        {JoinRoomEffect(s, r, Fn),
         JoinRoomEffect(s, Obj([roomId |-> r, passwordHash |-> HashA,
                                isProtected |-> Bool(TRUE)]), Fn),
         OfferEffect(s, Obj([roomId |-> r, sdp |-> Blob])),
         AnswerEffect(s, Obj([roomId |-> r, sdp |-> Blob])),
         IceCandidateEffect(s, Obj([roomId |-> r, candidate |-> Blob])),
         FileMetaEffect(s, Obj([roomId |-> r, metadata |->
                                   Obj([name |-> FileName, size |-> Num(0, 0)])])),
         TransferDoneEffect(s, Obj([roomId |-> r])),
         TransferConfirmedEffect(s, Obj([roomId |-> r]))}}

RoomOperations ==
    {"join-room", "offer", "answer", "ice-candidate", "file-meta",
     "transfer-done", "transfer-confirmed"}

C28_OtherRoomsAreIndependent ==
    /\ [](Ready =>
          \A s \in DOMAIN sockets :
            /\ \A in \in JoinInputs :
                ConfinedTo(JoinRoomEffect(s, in[1], in[2]), JoinedRoomId(in[1]))
            /\ \A d \in SdpPayloads :
                /\ ConfinedTo(OfferEffect(s, d), CarriedRoomId(d))
                /\ ConfinedTo(AnswerEffect(s, d), CarriedRoomId(d))
            /\ \A d \in CandidatePayloads :
                ConfinedTo(IceCandidateEffect(s, d), CarriedRoomId(d))
            /\ \A d \in FileMetaPayloads :
                ConfinedTo(FileMetaEffect(s, d), CarriedRoomId(d))
            /\ \A d \in StatusPayloads :
                /\ ConfinedTo(TransferDoneEffect(s, d), CarriedRoomId(d))
                /\ ConfinedTo(TransferConfirmedEffect(s, d), CarriedRoomId(d)))
    /\ [][(/\ last.op = "idle"
           /\ last'.op \in RoomOperations
           /\ last'.bcast # <<>>)
          => \A r \in ValidRoomIds \ {last'.bcast[1].room} :
                \A s \in DOMAIN sockets : OutcomesOn(s, r)' = OutcomesOn(s, r)]_vars

\* an offer for RoomA has been delivered while RoomB has a member that is
\* not in RoomA
C28_Witness ==
    /\ last.op = "offer"
    /\ Len(last.bcast) = 1
    /\ last.bcast[1].room = RoomA
    /\ last.bcast[1].to # {}
    /\ Members(rooms, RoomB) \ Members(rooms, RoomA) # {}

(***************************************************************************)
(* C29.  A relay message (offer, answer, ice-candidate, file-meta,         *)
(* transfer-done, transfer-confirmed) that names room R is delivered to    *)
(* members of R only when its sender is a member of R: a connection that   *)
(* has not joined R causes no delivery to the members of R.                *)
(***************************************************************************)
\* a message of a connection outside room r is delivered to nobody
OnlyFromInside(e, s, r) == s \notin Members(rooms, r) => Deliveries(e.step) = {}

C29_OnlyMembersRelay ==
    Ready =>
    \A s \in DOMAIN sockets :
        /\ \A d \in SdpPayloads :
            /\ OnlyFromInside(OfferEffect(s, d), s, CarriedRoomId(d))
            /\ OnlyFromInside(AnswerEffect(s, d), s, CarriedRoomId(d))
        /\ \A d \in CandidatePayloads :
            OnlyFromInside(IceCandidateEffect(s, d), s, CarriedRoomId(d))
        /\ \A d \in FileMetaPayloads :
            OnlyFromInside(FileMetaEffect(s, d), s, CarriedRoomId(d))
        /\ \A d \in StatusPayloads :
            /\ OnlyFromInside(TransferDoneEffect(s, d), s, CarriedRoomId(d))
            /\ OnlyFromInside(TransferConfirmedEffect(s, d), s, CarriedRoomId(d))

(***************************************************************************)
(* C30.  Between any two handler executions every room of the registry     *)
(* has at least one member: a room is created in the join-room step that   *)
(* inserts its first member and deleted in the disconnect step that        *)
(* removes its last one.  So check-room never answers room-info with       *)
(* hasUsers false.                                                         *)
(***************************************************************************)
C30_EveryRoomHasAMember ==
    Ready =>
    /\ \A r \in MapKeys(rooms) : Members(rooms, r) # {}
    /\ \A s \in DOMAIN sockets :
        \A d \in CheckPayloads :
            \A i \in 1..Len(CheckRoomEffect(s, d).step.out) :
                LET reply == CheckRoomEffect(s, d).step.out[i] IN
                reply.event = "room-info" =>
                    Field(reply.data, "hasUsers") = Bool(TRUE)

\* check-room has answered room-info for an open room whose only member
\* is the connection that created it
C30_Witness ==
    /\ last.op = "check-room"
    /\ Emitted(last, "room-info",
               Obj([exists |-> Bool(TRUE), isProtected |-> Bool(FALSE),
                    hasUsers |-> Bool(TRUE)]))
    /\ \E r \in MapKeys(rooms) : Cardinality(Members(rooms, r)) = 1

(***************************************************************************)
(* C31.  In every reachable state a run of the periodic room sweep leaves  *)
(* the registry as it is: no room is both empty and older than the         *)
(* timeout, at the current instant or at any later one.                    *)
(***************************************************************************)
C31_RoomSweepChangesNothing ==
    Ready =>
    \A t \in Instants :
        t >= now =>
            /\ CleanRooms(rooms, t) = rooms
            /\ \A i \in 1..Len(rooms) :
                ~(t - rooms[i].v.createdAt > 10 * 60 * 1000 /\ rooms[i].v.users = {})

\* the sweep has run past the timeout over a room created before it
C31_Witness ==
    /\ last.op = "room-sweep"
    /\ \E i \in 1..Len(rooms) : now - rooms[i].v.createdAt > 10 * 60 * 1000

(***************************************************************************)
(* C32.  In every reachable state, for every room id, the members the      *)
(* registry records for it are the connections subscribed to the           *)
(* broadcast room of that id; so a relay to a room goes to exactly its     *)
(* registry members other than the sender.  Joins, repeated joins,         *)
(* disconnects and sweeps keep the two sets equal.                         *)
(***************************************************************************)
Subscribed(ad, r) == {x \in SocketIds : <<r, x>> \in ad}

C32_MembersAreTheSubscribers ==
    /\ \A r \in RoomIdValues \cup MapKeys(rooms) \cup {p[1] : p \in adapter} :
        Members(rooms, r) = Subscribed(adapter, r)
    /\ \A s \in DOMAIN sockets :
        \A r \in ValidRoomIds :
            Broadcast(adapter, r, s, "offer", Undef).to = Members(rooms, r) \ {s}

\* a member of RoomA has joined it a second time and another member has
\* disconnected since
C32_Witness ==
    /\ last.op = "join-room"
    /\ Len(last.bcast) = 1
    /\ last.bcast[1].room = RoomA
    /\ last.bcast[1].to \cup {last.sid} = Members(rooms, RoomA)
    /\ Cardinality(Members(rooms, RoomA)) = 2
    /\ closed # {}

(***************************************************************************)
(* C33.  In every reachable state every identifier in a room's member set  *)
(* is that of a connection that is connected; so once every connection     *)
(* has disconnected the registry is empty.                                 *)
(***************************************************************************)
C33_MembersAreConnected ==
    /\ \A r \in MapKeys(rooms) : Members(rooms, r) \subseteq DOMAIN sockets
    /\ DOMAIN sockets = {} => rooms = <<>>

\* the last of three connections has disconnected and left a room
C33_Witness ==
    /\ last.op = "disconnect"
    /\ closed = SocketIds
    /\ Len(last.bcast) >= 1
    /\ rooms = <<>>

(***************************************************************************)
(* C34.  A refused connection attempt leaves the rate state as it is: the  *)
(* count and the window start of its address, and the state of every       *)
(* other address.  The window still starts at the attempt that opened it,  *)
(* so an address that keeps retrying while it is limited is admitted       *)
(* again once 60 seconds have passed since that attempt.                   *)
(***************************************************************************)
C34_RefusalLeavesTheRateState ==
    Ready =>
    \A ip \in Addresses :
        ~RateLimit(connectionCounts, ip, now).admit =>
            /\ RateLimit(connectionCounts, ip, now).counts = connectionCounts
            /\ MapGet(connectionCounts, ip).firstConnection = window[ip].opened
            /\ \A t \in RateInstants :
                t - window[ip].opened > 60000 =>
                    RateLimit(connectionCounts, ip, t).admit

\* an address has been refused for the second time in its window, at the
\* last instant of the window
C34_Witness ==
    /\ Ready
    /\ now = RATE_LIMIT_WINDOW
    /\ window["ip1"].opened = 0
    /\ window["ip1"].attempts = MAX_CONNECTIONS_PER_IP + 2
    /\ ~RateLimit(connectionCounts, "ip1", now).admit

(***************************************************************************)
(* C35.  The rate-limit sweep is invisible to admission: whenever the      *)
(* sweep has run, at arbitrary moments or never, an attempt is admitted    *)
(* or refused as it is by a map that was never swept, and the entry it     *)
(* leaves for its address is the same.                                     *)
(***************************************************************************)
\* the entry of the address in a map that is never swept: the window that
\* its attempts opened last, and the attempts admitted in it
NeverSwept(ip) ==
    IF window[ip].opened = -1
    THEN <<>>
    ELSE <<[k |-> ip,
            v |-> [count |-> IF window[ip].attempts < 10 THEN window[ip].attempts ELSE 10,
                   firstConnection |-> window[ip].opened]]>>

C35_SweepIsInvisibleToAdmission ==
    Ready =>
    \A ip \in Addresses :
        \A t \in RateInstants :
            t >= now =>
                \A m \in {connectionCounts, CleanConnectionCounts(connectionCounts, now),
                          CleanConnectionCounts(connectionCounts, t)} :
                    LET swept == RateLimit(m, ip, t)
                        never == RateLimit(NeverSwept(ip), ip, t)
                    IN
                    /\ swept.admit = never.admit
                    /\ MapGet(swept.counts, ip) = MapGet(never.counts, ip)

\* the sweep removed the entry of a limited address after its window, the
\* address has been admitted since, and its new entry comes after that of
\* an address that connected later
C35_Witness ==
    /\ last.op = "connect"
    /\ now = RATE_LIMIT_WINDOW + 1
    /\ window["ip1"].before > MAX_CONNECTIONS_PER_IP
    /\ Len(connectionCounts) = 2
    /\ connectionCounts[1].k = "ip2"
    /\ connectionCounts[1].v.firstConnection = RATE_LIMIT_WINDOW
    /\ connectionCounts[2] = [k |-> "ip1", v |-> [count |-> 1, firstConnection |-> now]]

(***************************************************************************)
(* C36.  In every reachable state every entry of the rate-state map has a  *)
(* count from 1 to 10, and the count of an address is the number of its    *)
(* attempts that were admitted since the start of its current window.      *)
(***************************************************************************)
C36_CountIsTheAdmittedAttempts ==
    \A ip \in MapKeys(connectionCounts) :
        LET e == MapGet(connectionCounts, ip) IN
        /\ e.count >= 1
        /\ e.count <= 10
        /\ e.firstConnection = window[ip].opened
        /\ e.count = IF window[ip].attempts < 10 THEN window[ip].attempts ELSE 10

\* the tenth attempt of a window has been admitted
C36_Witness ==
    /\ last.op = "connect"
    /\ Emitted(last, "connect", Undef)
    /\ window["ip1"].attempts = MAX_CONNECTIONS_PER_IP
    /\ MapGet(connectionCounts, "ip1").count = MAX_CONNECTIONS_PER_IP
    /\ MapHas(connectionCounts, "ip2")

(***************************************************************************)
(* C37.  join-room is idempotent on membership and not on notification.    *)
(* When a connection that is a member of room R sends join-room for R      *)
(* again, the registry (members, passwordHash, createdAt of every room)    *)
(* and the subscriptions stay as they are and the acknowledgement          *)
(* function gets success again, yet user-joined with the connection's id   *)
(* is delivered once more to every other member of R.                      *)
(***************************************************************************)
C37_RejoinNotifiesAgain ==
    Ready =>
    \A s \in DOMAIN sockets :
        \A in \in JoinInputs :
            LET r == JoinedRoomId(in[1])
                e == JoinRoomEffect(s, in[1], in[2])
            IN
            WellFormed(r) /\ s \in Members(rooms, r) =>
                /\ e.rooms = rooms
                /\ e.adapter = adapter
                /\ in[2] = Fn =>
                    e.step.ack = Obj([success |-> Bool(TRUE), roomId |-> r])
                /\ in[2] \in {Fn, NoCallback} =>
                    Deliveries(e.step) =
                        {<<x, "user-joined", Lit(s)>> : x \in Members(rooms, r) \ {s}}

\* s1 has joined the protected RoomA after the timeout of a room created
\* at the start; s2 is told, and a further join of s1 would tell it again
\* and change nothing
C37_Witness ==
    /\ last.op = "join-room"
    /\ last.sid = "s1"
    /\ now > ROOM_TIMEOUT
    /\ MapHas(rooms, RoomA)
    /\ MapGet(rooms, RoomA) =
           [users |-> {"s1", "s2"}, passwordHash |-> HashA, createdAt |-> 0]
    /\ Deliveries(last) = {<<"s2", "user-joined", Lit("s1")>>}
    /\ JoinRoomEffect("s1", RoomA, Fn).rooms = rooms
    /\ Deliveries(JoinRoomEffect("s1", RoomA, Fn).step) = Deliveries(last)

(***************************************************************************)
(* C38.  Protection belongs to a room, not to its id.  When the last       *)
(* member of a protected room disconnects the room is deleted, and the     *)
(* next join-room for the same id creates a new room: its passwordHash is  *)
(* the one this join asks for (none when it asks for none, another one     *)
(* when it carries another one) and its createdAt the time of this join.   *)
(* Nothing of the earlier hash is kept.                                    *)
(***************************************************************************)
C38_DeletedRoomComesBackFresh ==
    Ready =>
    \A s \in DOMAIN sockets :
        /\ \A r \in ValidRoomIds :
            Members(rooms, r) = {s} /\ MapGet(rooms, r).passwordHash # Null =>
                LET gone == DisconnectEffect(s).rooms IN
                /\ ~MapHas(gone, r)
                /\ \A d \in JoinsOf(r) :
                    \A t \in Instants :
                        t >= now =>
                            LET again == CreateRoom(gone, r, JoinArgs(d).passwordHash,
                                                    JoinArgs(d).isProtected, t)
                            IN
                            /\ MapHas(again, r)
                            /\ MapGet(again, r) =
                                   [users |-> {}, passwordHash |-> ProtectionOf(d),
                                    createdAt |-> t]
        /\ \A in \in JoinInputs :
            LET r == JoinedRoomId(in[1])
                e == JoinRoomEffect(s, in[1], in[2])
            IN
            WellFormed(r) /\ ~MapHas(rooms, r) =>
                /\ MapHas(e.rooms, r)
                /\ MapGet(e.rooms, r) =
                       [users |-> {s}, passwordHash |-> ProtectionOf(in[1]),
                        createdAt |-> now]

\* after the timeout, and after the first connection has gone, the second
\* one has created RoomA without protection
C38_Witness ==
    /\ last.op = "join-room"
    /\ last.sid = "s2"
    /\ closed = {"s1"}
    /\ now > ROOM_TIMEOUT
    /\ MapHas(rooms, RoomA)
    /\ MapGet(rooms, RoomA) = [users |-> {"s2"}, passwordHash |-> Null, createdAt |-> now]

(***************************************************************************)
(* C40.  Every room id generateSecureRoomId produces, with                 *)
(* window.crypto and in the fallback without it, is a string the server's  *)
(* isValidRoomId accepts: 8 to 15 letters and digits.  So join-room with   *)
(* a freshly generated id is acknowledged with success.                    *)
(***************************************************************************)
C40_GeneratedIdIsValid ==
    client.generated # Undef =>
        /\ WellFormed(client.generated)
        /\ isValidRoomId(client.generated)
        /\ Ready =>
            \A s \in DOMAIN sockets :
                JoinRoomEffect(s, client.generated, Fn).step.ack =
                    Obj([success |-> Bool(TRUE), roomId |-> client.generated])

(***************************************************************************)
(* C39.  In the signaling helpers of the page, every ICE candidate that    *)
(* arrives while the peer connection has no remote description is          *)
(* appended to the queue.  Once handleOffer or handleAnswer has set the    *)
(* remote description the queue is drained in the order of arrival until   *)
(* it is empty: each queued candidate is handed to addIceCandidate once,   *)
(* none is lost, none is handed over before the remote description is     *)
(* set; also when further candidates, or a second offer or answer, arrive  *)
(* while the drain is awaiting.                                            *)
(***************************************************************************)
\* the candidates handed to addIceCandidate out of the queue, in the order
\* of the calls
Drained == SelectSeq(client.handed, LAMBDA h : h.fromQueue)

====
